---- MODULE Spec2Model ----
(***************************************************************************)
(* A model of the road-network A* visualizer: RoadNetwork (fetch, build,   *)
(* nearest-node lookup), PriorityQueue and RoadPathfinder (findPath), and  *)
(* the PathfindingVisualizer event handlers that drive them.               *)
(*                                                                         *)
(* JavaScript runs one task at a time: a handler or an async function runs *)
(* without interruption up to its next `await`.  Each action below is one  *)
(* such uninterrupted stretch of code.                                     *)
(***************************************************************************)
EXTENDS Integers, Sequences, FiniteSets, TLC

\* ------------------------------------------------------------------------
\* Bounds of the model
\* ------------------------------------------------------------------------
\* number of fetchRoadData calls explored in one behaviour
MaxCalls == 2
\* number of findPath calls explored in one behaviour
MaxRuns == 2

\* ------------------------------------------------------------------------
\* Values
\* ------------------------------------------------------------------------
\* null / undefined for node references (node ids are positive)
Null == 0
\* the number Infinity of RoadNode.g and RoadNode.f
Infinity == 1000000000
\* a coordinate that is not a number (typeof lat !== 'number')
NotANumber == -1
\* coordinates are in units of 1/10000 degree
Degree == 10000
\* the whole degrees of the grid on which most of the road data lies
Coords == 0..2

Abs(x) == IF x < 0 THEN -x ELSE x
Last(s) == s[Len(s)]

\* Infinity + x = Infinity in IEEE arithmetic
Plus(a, b) == IF a >= Infinity \/ b >= Infinity THEN Infinity ELSE a + b

\* ------------------------------------------------------------------------
\* RoadNetwork.calculateDistance: the haversine formula with R = 6371e3,
\* tabulated in metres (rounded up); the formula depends on the two
\* latitudes and on the longitude difference.  HaversineTable covers the
\* grid of whole degrees (keys in degrees), NearTable a neighbourhood of
\* 60 degrees north where points lie tens of metres apart.
\* ------------------------------------------------------------------------
HaversineTable ==
    [k \in (Coords \X Coords \X Coords) |->
        CASE k = <<0, 0, 0>> -> 0
          [] k = <<0, 0, 1>> -> 111195
          [] k = <<0, 0, 2>> -> 222390
          [] k = <<0, 1, 0>> -> 111195
          [] k = <<0, 1, 1>> -> 157250
          [] k = <<0, 1, 2>> -> 248630
          [] k = <<0, 2, 0>> -> 222390
          [] k = <<0, 2, 1>> -> 248630
          [] k = <<0, 2, 2>> -> 314475
          [] k = <<1, 0, 0>> -> 111195
          [] k = <<1, 0, 1>> -> 157250
          [] k = <<1, 0, 2>> -> 248630
          [] k = <<1, 1, 0>> -> 0
          [] k = <<1, 1, 1>> -> 111178
          [] k = <<1, 1, 2>> -> 222356
          [] k = <<1, 2, 0>> -> 111195
          [] k = <<1, 2, 1>> -> 157226
          [] k = <<1, 2, 2>> -> 248569
          [] k = <<2, 0, 0>> -> 222390
          [] k = <<2, 0, 1>> -> 248630
          [] k = <<2, 0, 2>> -> 314475
          [] k = <<2, 1, 0>> -> 111195
          [] k = <<2, 1, 1>> -> 157226
          [] k = <<2, 1, 2>> -> 248569
          [] k = <<2, 2, 0>> -> 0
          [] k = <<2, 2, 1>> -> 111128
          [] k = <<2, 2, 2>> -> 222255]

\* latitudes and longitude differences of the neighbourhood of 60 N
NearLats == {60 * Degree, 60 * Degree + 9}
NearLons == {0, 9, 15, 24}
NearTable ==
    [k \in (NearLats \X NearLats \X {0, 6, 9, 15, 24}) |->
        IF k[1] = k[2]
        THEN CASE k[3] = 0 -> 0
               [] k[3] = 6 -> 34
               [] k[3] = 9 -> 51
               [] k[3] = 15 -> 84
               [] k[3] = 24 -> 134
        ELSE CASE k[3] = 0 -> 101
               [] k[3] = 6 -> 106
               [] k[3] = 9 -> 112
               [] k[3] = 15 -> 131
               [] k[3] = 24 -> 167]

\* a coordinate of the grid in whole degrees (-1: not on the grid)
Whole(c) == IF c % Degree = 0 THEN c \div Degree ELSE -1

calculateDistance(lat1, lon1, lat2, lon2) ==
    LET k == <<lat1, lat2, Abs(lon2 - lon1)>>
    IN  IF NotANumber \in {lat1, lon1, lat2, lon2}
        THEN \* arithmetic on undefined gives NaN
             NotANumber
        ELSE IF k \in DOMAIN NearTable
        THEN NearTable[k]
        ELSE HaversineTable[<<Whole(k[1]), Whole(k[2]), Whole(k[3])>>]

\* ------------------------------------------------------------------------
\* Raw map data (the parsed Overpass response)
\* ------------------------------------------------------------------------
OsmNode(id, lat, lon) ==
    [type |-> "node", id |-> id, lat |-> lat, lon |-> lon,
     highway |-> "", oneway |-> "", nodes |-> <<>>]
\* highway = "" stands for a way without tags.highway
OsmWay(id, highway, oneway, nodeIds) ==
    [type |-> "way", id |-> id, lat |-> NotANumber, lon |-> NotANumber,
     highway |-> highway, oneway |-> oneway, nodes |-> nodeIds]
\* hasElements = FALSE stands for a response without an elements array
OsmData(elems) == [hasElements |-> TRUE, elements |-> elems]
MalformedData == [hasElements |-> FALSE, elements |-> <<>>]

\* ------------------------------------------------------------------------
\* RoadNode, RoadEdge and the Map collections (kept in insertion order)
\* ------------------------------------------------------------------------
RoadNode(id, lat, lng) ==
    [id |-> id, lat |-> lat, lng |-> lng, connections |-> <<>>,
     g |-> Infinity, h |-> 0, f |-> Infinity, parent |-> Null]

\* a reset that leaves the parent of the node in place
reset_KeepsParent(node) ==
    [node EXCEPT !.g = Infinity, !.h = 0, !.f = Infinity]

\* RoadNode.reset
reset(node) ==
    [node EXCEPT !.g = Infinity, !.h = 0, !.f = Infinity, !.parent = Null]

\* edge ids `${way.id}-${i}` and `${way.id}-${i}-rev` are <<way, i, 0>> and <<way, i, 1>>
RoadEdge(id, source, target, distance, roadType) ==
    [id |-> id, source |-> source, target |-> target, distance |-> distance,
     roadType |-> roadType, wayId |-> id[1]]

\* Map.has / Map.get / Map.set on a sequence of records keyed by field id
MapHas(m, id) == \E i \in 1..Len(m) : m[i].id = id
MapIdx(m, id) == CHOOSE i \in 1..Len(m) : m[i].id = id
MapGet(m, id) == m[MapIdx(m, id)]
MapSet(m, v) ==
    IF MapHas(m, v.id) THEN [m EXCEPT ![MapIdx(m, v.id)] = v] ELSE Append(m, v)

\* node.connections: Map of neighbour id -> edge, as entries [to, edge]
ConnHas(c, to) == \E i \in 1..Len(c) : c[i].to = to
ConnIdx(c, to) == CHOOSE i \in 1..Len(c) : c[i].to = to
ConnSet(c, to, edge) ==
    IF ConnHas(c, to)
    THEN [c EXCEPT ![ConnIdx(c, to)] = [to |-> to, edge |-> edge]]
    ELSE Append(c, [to |-> to, edge |-> edge])

\* ------------------------------------------------------------------------
\* RoadNetwork.processOsmData and buildSpatialIndex, as functions of the data
\* ------------------------------------------------------------------------
NoIndex == [built |-> FALSE, points |-> <<>>]

\* new KDBush(points, ...) over the nodes in Map order, and nodeLocations
IndexPoints(nodeSeq) ==
    [i \in 1..Len(nodeSeq) |->
        [x |-> nodeSeq[i].lng, y |-> nodeSeq[i].lat, id |-> nodeSeq[i].id]]
NodeLocationsOf(nodeSeq) == [i \in 1..Len(nodeSeq) |-> nodeSeq[i].id]
buildSpatialIndex(nodeSeq) ==
    [spatialIndex |-> [built |-> TRUE, points |-> IndexPoints(nodeSeq)],
     nodeLocations |-> NodeLocationsOf(nodeSeq)]

IsOsmNode(e) == e.type = "node"
IsRoadWay(e) == e.type = "way" /\ e.highway # ""
\* a test of the id alone
ValidOsmNode_IdOnly(e) == e.id # NotANumber

\* typeof id, lat, lon === 'number'
ValidOsmNode(e) ==
    e.id # NotANumber /\ e.lat # NotANumber /\ e.lon # NotANumber

\* the local Map `nodes` (id -> [lat, lon]); a later element with the same
\* id overwrites an earlier one
LocalHas(osmNodes, id) ==
    \E i \in 1..Len(osmNodes) : ValidOsmNode(osmNodes[i]) /\ osmNodes[i].id = id
LocalGet(osmNodes, id) ==
    LET I == {i \in 1..Len(osmNodes) :
                 ValidOsmNode(osmNodes[i]) /\ osmNodes[i].id = id}
        last == CHOOSE i \in I : \A j \in I : j <= i
    IN  osmNodes[last]

\* !way.tags.oneway || way.tags.oneway === 'no'
\* a test that takes only an absent tag for two-way
IsTwoWay_UntaggedOnly(way) == way.oneway = ""

IsTwoWay(way) == way.oneway = "" \/ way.oneway = "no"

\* an inner loop that creates the RoadNode of the first point only
AddSegment_ForgetsTarget(net, way, i, osmNodes) ==
    LET a == way.nodes[i]
        b == way.nodes[i + 1]
    IN  IF ~LocalHas(osmNodes, a) \/ ~LocalHas(osmNodes, b)
        THEN net
        ELSE
          LET da == LocalGet(osmNodes, a)
              db == LocalGet(osmNodes, b)
              ns2 == IF MapHas(net.nodes, a) THEN net.nodes
                     ELSE Append(net.nodes, RoadNode(a, da.lat, da.lon))
              distance == calculateDistance(da.lat, da.lon, db.lat, db.lon)
              edge == RoadEdge(<<way.id, i - 1, 0>>, a, b, distance, way.highway)
              es1 == MapSet(net.edges, edge)
              ns3 == [ns2 EXCEPT ![MapIdx(ns2, a)].connections =
                                     ConnSet(@, b, edge)]
              reverseEdge ==
                  RoadEdge(<<way.id, i - 1, 1>>, b, a, distance, way.highway)
          IN  IF IsTwoWay(way) /\ MapHas(ns3, b)
              THEN [nodes |-> [ns3 EXCEPT ![MapIdx(ns3, b)].connections =
                                              ConnSet(@, a, reverseEdge)],
                    edges |-> MapSet(es1, reverseEdge)]
              ELSE [nodes |-> ns3, edges |-> es1]

\* one pass of the inner loop: the pair way.nodes[i], way.nodes[i + 1]
\* (i counts from 1 here, the edge id keeps the source's index i - 1)
AddSegment(net, way, i, osmNodes) ==
    LET a == way.nodes[i]
        b == way.nodes[i + 1]
    IN  IF ~LocalHas(osmNodes, a) \/ ~LocalHas(osmNodes, b)
        THEN net
        ELSE
          LET da == LocalGet(osmNodes, a)
              db == LocalGet(osmNodes, b)
              ns1 == IF MapHas(net.nodes, a) THEN net.nodes
                     ELSE Append(net.nodes, RoadNode(a, da.lat, da.lon))
              ns2 == IF MapHas(ns1, b) THEN ns1
                     ELSE Append(ns1, RoadNode(b, db.lat, db.lon))
              distance == calculateDistance(da.lat, da.lon, db.lat, db.lon)
              edge == RoadEdge(<<way.id, i - 1, 0>>, a, b, distance, way.highway)
              es1 == MapSet(net.edges, edge)
              ns3 == [ns2 EXCEPT ![MapIdx(ns2, a)].connections =
                                     ConnSet(@, b, edge)]
              reverseEdge ==
                  RoadEdge(<<way.id, i - 1, 1>>, b, a, distance, way.highway)
          IN  IF IsTwoWay(way)
              THEN [nodes |-> [ns3 EXCEPT ![MapIdx(ns3, b)].connections =
                                              ConnSet(@, a, reverseEdge)],
                    edges |-> MapSet(es1, reverseEdge)]
              ELSE [nodes |-> ns3, edges |-> es1]

\* an inner loop that leaves the way at the first pair with a missing point
RECURSIVE AddSegments_StopsAtGap(_, _, _, _)
AddSegments_StopsAtGap(net, way, i, osmNodes) ==
    IF i > Len(way.nodes) - 1 THEN net
    ELSE IF ~LocalHas(osmNodes, way.nodes[i]) \/ ~LocalHas(osmNodes, way.nodes[i + 1])
    THEN net
    ELSE AddSegments_StopsAtGap(AddSegment(net, way, i, osmNodes), way, i + 1, osmNodes)

RECURSIVE AddSegments(_, _, _, _)
AddSegments(net, way, i, osmNodes) ==
    IF i > Len(way.nodes) - 1 THEN net
    ELSE AddSegments(AddSegment(net, way, i, osmNodes), way, i + 1, osmNodes)

\* the body of ways.forEach
AddWay(net, way, osmNodes) ==
    IF Len(way.nodes) < 2 THEN net ELSE AddSegments(net, way, 1, osmNodes)

RECURSIVE AddWays(_, _, _, _)
AddWays(net, ways, k, osmNodes) ==
    IF k > Len(ways) THEN net
    ELSE AddWays(AddWay(net, ways[k], osmNodes), ways, k + 1, osmNodes)

\* a catch block after which the network counts as ready
ProcessFailed_LeavesReady(message, progress) ==
    [threw |-> TRUE, message |-> message, nodes |-> <<>>, edges |-> <<>>,
     spatialIndex |-> NoIndex, nodeLocations |-> <<>>,
     loadProgress |-> progress, ready |-> TRUE]

\* what the catch block of processOsmData leaves behind
ProcessFailed(message, progress) ==
    [threw |-> TRUE, message |-> message, nodes |-> <<>>, edges |-> <<>>,
     spatialIndex |-> NoIndex, nodeLocations |-> <<>>,
     loadProgress |-> progress, ready |-> FALSE]

\* the messages of the errors processOsmData throws for data that gives no
\* graph: no node element, no road, no node or edge created
GraphEmptyErrors ==
    {"No nodes found in data", "No roads found in data",
     "Failed to build road network - no nodes or edges created"}

\* the final validation of processOsmData
NetworkIsEmpty(net) == Len(net.nodes) = 0 \/ Len(net.edges) = 0

\* processOsmData without the final validation of the built network
processOsmData_NoValidation(data, progress) ==
    IF ~data.hasElements
    THEN ProcessFailed("Invalid OSM data format", progress)
    ELSE
      LET osmNodes == SelectSeq(data.elements, IsOsmNode)
          ways == SelectSeq(data.elements, IsRoadWay)
      IN  IF Len(osmNodes) = 0
          THEN ProcessFailed("No nodes found in data", progress)
          ELSE IF Len(ways) = 0
          THEN ProcessFailed("No roads found in data", 60)
          ELSE
            LET net == AddWays([nodes |-> <<>>, edges |-> <<>>], ways, 1, osmNodes)
                idx == buildSpatialIndex(net.nodes)
            IN  [threw |-> FALSE, message |-> "", nodes |-> net.nodes,
                 edges |-> net.edges, spatialIndex |-> idx.spatialIndex,
                 nodeLocations |-> idx.nodeLocations,
                 loadProgress |-> 100, ready |-> TRUE]

\* processOsmData(data), called with loadProgress = progress
processOsmData(data, progress) ==
    IF ~data.hasElements
    THEN ProcessFailed("Invalid OSM data format", progress)
    ELSE
      LET osmNodes == SelectSeq(data.elements, IsOsmNode)
          ways == SelectSeq(data.elements, IsRoadWay)
      IN  IF Len(osmNodes) = 0
          THEN ProcessFailed("No nodes found in data", progress)
          ELSE IF Len(ways) = 0
          THEN ProcessFailed("No roads found in data", 60)
          ELSE
            LET net == AddWays([nodes |-> <<>>, edges |-> <<>>], ways, 1, osmNodes)
                idx == buildSpatialIndex(net.nodes)
            IN  IF NetworkIsEmpty(net)
                THEN ProcessFailed(
                       "Failed to build road network - no nodes or edges created", 80)
                ELSE [threw |-> FALSE, message |-> "", nodes |-> net.nodes,
                      edges |-> net.edges, spatialIndex |-> idx.spatialIndex,
                      nodeLocations |-> idx.nodeLocations,
                      loadProgress |-> 100, ready |-> TRUE]

\* ------------------------------------------------------------------------
\* State
\* ------------------------------------------------------------------------
VARIABLES
    \* RoadNetwork fields
    nodes, edges, bounds, lastSuccessBounds, ready, loading,
    spatialIndex, nodeLocations, loadProgress,
    \* the fetchRoadData call in progress: its position and local variables
    call,
    \* observations: number of fetchRoadData calls made, what the latest call
    \* did at once, what the latest attempt of the call in progress ended
    \* with, and the latest findNearestNode call made from outside findPath
    calls, lastCall, lastAttempt, lookup,
    \* the graph as it was when the call in progress (or the latest call)
    \* began, and whether that call has run processOsmData since
    snapshot,
    \* RoadPathfinder fields
    openSet, closedSet, paused, pathFound,
    \* the findPath calls: position and local variables of each, how many
    \* were made, and the one that is executing right now (0: none)
    runs, started, running,
    \* PathfindingVisualizer fields and the controls it enables and disables
    startMarker, endMarker, selectMode, isSearching,
    startSearchDisabled, pauseSearchDisabled, clearPointsDisabled,
    \* the Leaflet map: its zoom and bounds, and the armed moveend debounce timer
    view, moveTimeout

netVars == <<nodes, edges, bounds, lastSuccessBounds, ready, loading,
             spatialIndex, nodeLocations, loadProgress>>
fetchVars == <<call, calls, lastCall, lastAttempt, snapshot>>
pfVars == <<openSet, closedSet, paused, pathFound>>
runVars == <<runs, started, running>>
uiVars == <<startMarker, endMarker, selectMode, isSearching,
            startSearchDisabled, pauseSearchDisabled, clearPointsDisabled,
            view, moveTimeout>>
vars == <<netVars, fetchVars, lookup, pfVars, runVars, uiVars>>

\* RoadNetwork.searchRadius, metres
searchRadius == 100
\* const maxRetries = 3 in fetchRoadData
maxRetries == 3

\* bounding boxes, in hundredths of a degree
NullBounds == [south |-> -1, west |-> -1, north |-> -1, east |-> -1]
BoundsSet == {[south |-> 0, west |-> 0, north |-> 5, east |-> 5],
              [south |-> 100, west |-> 100, north |-> 104, east |-> 110]}
\* a view spanning more than loadRoadsInView accepts
WideBounds == [south |-> 0, west |-> 0, north |-> 20, east |-> 5]

NoError == [name |-> "", message |-> ""]
\* fetch() rejecting: the 30 s abort, or a network failure
FetchRejections == {[name |-> "AbortError", message |-> "The operation was aborted"],
                    [name |-> "TypeError", message |-> "Failed to fetch"]}
HttpStatuses == {200, 429, 500}
HttpError(status) ==
    [name |-> "Error",
     message |-> IF status = 429 THEN "HTTP error! status: 429"
                 ELSE "HTTP error! status: 500"]
InvalidResponseError ==
    [name |-> "Error", message |-> "Invalid response format from Overpass API"]
JsonError == [name |-> "SyntaxError", message |-> "Unexpected token in JSON"]
\* error.message.includes('429')
Includes429(message) == message = "HTTP error! status: 429"

\* the four-node square of the design's scenario: A(0,0) B(0,1) C(1,0) D(1,1)
DataSquare ==
    OsmData(<<OsmNode(1, 0, 0), OsmNode(2, 0, Degree), OsmNode(3, Degree, 0), OsmNode(4, Degree, Degree),
              OsmWay(10, "residential", "", <<1, 2, 4>>),
              OsmWay(11, "primary", "", <<1, 3, 4>>)>>)
\* a one-way street, a node without coordinates and a way through it
DataOneWay ==
    OsmData(<<OsmNode(1, 0, 0), OsmNode(2, 0, Degree), OsmNode(5, NotANumber, 2 * Degree),
              OsmWay(20, "service", "yes", <<1, 2>>),
              OsmWay(21, "service", "", <<2, 5>>)>>)
\* nodes but no road
DataNoRoads == OsmData(<<OsmNode(1, 0, 0), OsmNode(2, 0, Degree)>>)
\* roads whose points are all missing
DataDangling ==
    OsmData(<<OsmNode(1, 0, 0), OsmWay(30, "tertiary", "", <<7, 8>>)>>)
\* what response.json() may resolve to
Responses == {DataSquare, DataOneWay, DataNoRoads, DataDangling, MalformedData}

\* data: the argument of a processOsmData call made by a caller of the
\* network itself (MalformedData when there was none)
IdleCall ==
    [pc |-> "idle", bounds |-> NullBounds, retryCount |-> 0, lastError |-> NoError,
     fetches |-> 0, processThrew |-> FALSE, processMessage |-> "",
     outcome |-> "none", thrown |-> "", data |-> MalformedData]

NoLookup ==
    [made |-> FALSE, lat |-> 0, lng |-> 0, node |-> Null, readIndex |-> FALSE,
     loading |-> FALSE, ready |-> FALSE, hadIndex |-> FALSE]

NoSnapshot ==
    [ready |-> FALSE, nodes |-> <<>>, edges |-> <<>>, spatialIndex |-> NoIndex,
     processed |-> FALSE]

InitNetwork ==
    /\ nodes = <<>>
    /\ edges = <<>>
    /\ bounds = NullBounds
    /\ lastSuccessBounds = NullBounds
    /\ ready = FALSE
    /\ loading = FALSE
    /\ spatialIndex = NoIndex
    /\ nodeLocations = <<>>
    /\ loadProgress = 0

InitFetch ==
    /\ call = IdleCall
    /\ calls = 0
    /\ lastCall = "none"
    /\ lastAttempt = ""
    /\ lookup = NoLookup
    /\ snapshot = NoSnapshot

\* ------------------------------------------------------------------------
\* RoadNetwork.findNearestNode
\* ------------------------------------------------------------------------
\* spatialIndex.within(lng, lat, searchRadius / 111000): the indices of the
\* points whose squared distance in degrees is at most the squared radius,
\* (dx^2 + dy^2) / Degree^2 * 111000^2 <= searchRadius^2, in index order
Within(index, qx, qy) ==
    LET Near(i) ==
          LET dx == index.points[i].x - qx
              dy == index.points[i].y - qy
          IN  dx * dx + dy * dy <=
                (searchRadius * searchRadius * ((Degree \div 1000) * (Degree \div 1000)))
                    \div (111 * 111)
    IN  SelectSeq([i \in 1..Len(index.points) |-> i], Near)

\* the loop over nearestIndices: the first candidate of least distance
RECURSIVE ClosestOf(_, _, _, _, _, _)
ClosestOf(cands, k, lat, lng, best, minDistance) ==
    IF k > Len(cands) THEN best
    ELSE
      LET node == MapGet(nodes, nodeLocations[cands[k]])
          distance == calculateDistance(lat, lng, node.lat, node.lng)
      IN  IF distance < minDistance
          THEN ClosestOf(cands, k + 1, lat, lng, node.id, distance)
          ELSE ClosestOf(cands, k + 1, lat, lng, best, minDistance)

\* findNearestNode without the check of the loading flag
findNearestNode_NoLoadingGuard(lat, lng) ==
    IF ~ready THEN [node |-> Null, readIndex |-> FALSE]
    ELSE IF ~spatialIndex.built THEN [node |-> Null, readIndex |-> FALSE]
    ELSE
      LET nearestIndices == Within(spatialIndex, lng, lat)
      IN  IF Len(nearestIndices) = 0
          THEN [node |-> Null, readIndex |-> TRUE]
          ELSE [node |-> ClosestOf(nearestIndices, 1, lat, lng, Null, Infinity),
                readIndex |-> TRUE]

\* the result (a node id or Null) and whether the spatial index was queried
findNearestNode(lat, lng) ==
    IF ~ready THEN [node |-> Null, readIndex |-> FALSE]
    ELSE IF loading THEN [node |-> Null, readIndex |-> FALSE]
    ELSE IF ~spatialIndex.built THEN [node |-> Null, readIndex |-> FALSE]
    ELSE
      LET nearestIndices == Within(spatialIndex, lng, lat)
      IN  IF Len(nearestIndices) = 0
          THEN [node |-> Null, readIndex |-> TRUE]
          ELSE [node |-> ClosestOf(nearestIndices, 1, lat, lng, Null, Infinity),
                readIndex |-> TRUE]

\* a caller of the network looks up a point
CallFindNearestNode(lat, lng) ==
    /\ LET r == findNearestNode(lat, lng)
       IN  lookup' = [made |-> TRUE, lat |-> lat, lng |-> lng, node |-> r.node,
                      readIndex |-> r.readIndex, loading |-> loading,
                      ready |-> ready, hadIndex |-> spatialIndex.built]
    /\ UNCHANGED <<netVars, fetchVars, pfVars, runVars, uiVars>>

\* ------------------------------------------------------------------------
\* findPath calls
\* ------------------------------------------------------------------------
RunIds == 1..MaxRuns

NoResult ==
    [kind |-> "none", nodes |-> <<>>, segments |-> <<>>, totalDistance |-> 0,
     totalTime |-> 0, nodesExplored |-> 0]

\* 'return null': the value findPath returns both when a point resolves to
\* no node and when the queue runs empty; the count is logged, not returned
NullResult == [NoResult EXCEPT !.kind = "null"]

\* pc: "unused", then "loop" (executing), "pauseWait" (in the 100 ms pause
\* timer), "cbWait" (awaiting the progress callback), finally "done".
\* startId, endId, endLat, endLng: the locals startNode and endNode.
\* stale: the graph was rebuilt since, so startNode and endNode are objects
\* that are no longer in network.nodes.
UnusedRun ==
    [pc |-> "unused", caller |-> "", startId |-> Null, endId |-> Null,
     endLat |-> 0, endLng |-> 0, stale |-> FALSE, nodesExplored |-> 0,
     result |-> NoResult]

InFlight(run) == run.pc \in {"loop", "pauseWait", "cbWait"}

\* nodes.clear() followed by new RoadNode objects: the nodes an in-flight
\* findPath holds are not the objects of the Map any more
NodesReplaced(rs) ==
    [i \in DOMAIN rs |->
        IF InFlight(rs[i]) THEN [rs[i] EXCEPT !.stale = TRUE] ELSE rs[i]]

\* ------------------------------------------------------------------------
\* RoadNetwork.fetchRoadData
\* ------------------------------------------------------------------------
\* the message of the Error thrown when the attempts are used up
FailedMessage(reason) == "Failed to fetch road data after 3 attempts: " \o reason

\* retryCount++ and the rest of the catch block: give up or back off
RetryOrGiveUp(c) ==
    LET n == c.retryCount + 1
    IN  IF n = maxRetries
        THEN [c EXCEPT !.retryCount = n, !.pc = "idle", !.outcome = "throw",
                       !.thrown = FailedMessage(c.lastError.message)]
        ELSE [c EXCEPT !.retryCount = n, !.pc = "backoff"]

\* the catch block keeping the first error instead of the latest
CatchBlock_KeepFirstError(c, error) ==
    LET c1 == IF c.lastError = NoError THEN [c EXCEPT !.lastError = error] ELSE c
    IN  IF error.name = "AbortError" THEN RetryOrGiveUp(c1)
        ELSE IF Includes429(error.message) THEN [c1 EXCEPT !.pc = "rateWait"]
        ELSE RetryOrGiveUp(c1)

\* the catch block up to its first await or to its throw
CatchBlock(c, error) ==
    LET c1 == [c EXCEPT !.lastError = error]
    IN  IF error.name = "AbortError" THEN RetryOrGiveUp(c1)
        ELSE IF Includes429(error.message) THEN [c1 EXCEPT !.pc = "rateWait"]
        ELSE RetryOrGiveUp(c1)

\* the flags the catch block writes when it gives up
GiveUpFlags(c) ==
    IF c.outcome = "throw"
    THEN ready' = FALSE /\ loading' = FALSE
    ELSE UNCHANGED <<ready, loading>>

\* fetchRoadData without its re-entrancy guard
fetchRoadData_NoGuard(b) ==
    /\ calls < MaxCalls
    /\ calls' = calls + 1
    /\ lastCall' = "started"
    /\ loading' = TRUE
    /\ loadProgress' = 0
    /\ ready' = FALSE
    /\ bounds' = b
    /\ call' = [IdleCall EXCEPT !.pc = "fetch", !.bounds = b, !.fetches = 1]
    /\ lastAttempt' = ""
    /\ snapshot' = [ready |-> ready, nodes |-> nodes, edges |-> edges,
                    spatialIndex |-> spatialIndex, processed |-> FALSE]
    /\ UNCHANGED <<nodes, edges, lastSuccessBounds, spatialIndex, nodeLocations>>

\* fetchRoadData discarding the graph before the first attempt
fetchRoadData_ClearsFirst(b) ==
    /\ calls < MaxCalls
    /\ calls' = calls + 1
    /\ IF loading
       THEN /\ lastCall' = "false"
            /\ UNCHANGED <<netVars, call, lastAttempt, snapshot>>
       ELSE /\ lastCall' = "started"
            /\ loading' = TRUE
            /\ loadProgress' = 0
            /\ ready' = FALSE
            /\ bounds' = b
            /\ call' = [IdleCall EXCEPT !.pc = "fetch", !.bounds = b, !.fetches = 1]
            /\ lastAttempt' = ""
            /\ snapshot' = [ready |-> ready, nodes |-> nodes, edges |-> edges,
                            spatialIndex |-> spatialIndex, processed |-> FALSE]
            /\ nodes' = <<>>
            /\ edges' = <<>>
            /\ spatialIndex' = NoIndex
            /\ nodeLocations' = <<>>
            /\ UNCHANGED lastSuccessBounds

\* the call itself, up to the first fetch()
fetchRoadData(b) ==
    /\ calls < MaxCalls
    /\ calls' = calls + 1
    /\ IF loading
       THEN /\ lastCall' = "false"
            /\ UNCHANGED <<netVars, call, lastAttempt, snapshot>>
       ELSE /\ lastCall' = "started"
            /\ loading' = TRUE
            /\ loadProgress' = 0
            /\ ready' = FALSE
            /\ bounds' = b
            /\ call' = [IdleCall EXCEPT !.pc = "fetch", !.bounds = b, !.fetches = 1]
            /\ lastAttempt' = ""
            /\ snapshot' = [ready |-> ready, nodes |-> nodes, edges |-> edges,
                            spatialIndex |-> spatialIndex, processed |-> FALSE]
            /\ UNCHANGED <<nodes, edges, lastSuccessBounds, spatialIndex, nodeLocations>>

\* an attempt fails inside the try block: the catch block runs
AttemptFails(error) ==
    /\ call' = CatchBlock(call, error)
    /\ lastAttempt' = error.message
    /\ GiveUpFlags(call')

\* fetch() rejects
FetchRejects(error) ==
    /\ call.pc = "fetch"
    /\ running = 0
    /\ UNCHANGED <<lookup, pfVars, runVars, uiVars>>
    /\ AttemptFails(error)
    /\ UNCHANGED <<nodes, edges, bounds, lastSuccessBounds, spatialIndex,
                   nodeLocations, loadProgress, calls, lastCall, snapshot>>

\* fetch() resolves with a response
FetchResponds(status) ==
    /\ call.pc = "fetch"
    /\ running = 0
    /\ UNCHANGED <<lookup, pfVars, runVars, uiVars>>
    /\ IF status # 200
       THEN AttemptFails(HttpError(status))
       ELSE /\ call' = [call EXCEPT !.pc = "json"]
            /\ UNCHANGED <<lastAttempt, ready, loading>>
    /\ UNCHANGED <<nodes, edges, bounds, lastSuccessBounds, spatialIndex,
                   nodeLocations, loadProgress, calls, lastCall, snapshot>>

\* response.json() rejects
JsonRejects ==
    /\ call.pc = "json"
    /\ running = 0
    /\ UNCHANGED <<lookup, pfVars, runVars, uiVars>>
    /\ AttemptFails(JsonError)
    /\ UNCHANGED <<nodes, edges, bounds, lastSuccessBounds, spatialIndex,
                   nodeLocations, loadProgress, calls, lastCall, snapshot>>

\* response.json() resolves: validation, then processOsmData runs
JsonResolves(data) ==
    /\ call.pc = "json"
    /\ running = 0
    /\ UNCHANGED <<lookup, pfVars, started, running, uiVars>>
    /\ IF ~data.hasElements
       THEN /\ AttemptFails(InvalidResponseError)
            /\ loadProgress' = 50
            /\ UNCHANGED <<nodes, edges, bounds, spatialIndex, nodeLocations, runs,
                           snapshot>>
       ELSE LET r == processOsmData(data, 50)
            IN  /\ nodes' = r.nodes
                /\ edges' = r.edges
                /\ spatialIndex' = r.spatialIndex
                /\ nodeLocations' = r.nodeLocations
                /\ loadProgress' = r.loadProgress
                /\ ready' = r.ready
                /\ bounds' = IF r.threw THEN NullBounds ELSE bounds
                /\ call' = [call EXCEPT !.pc = "processed",
                                        !.processThrew = r.threw,
                                        !.processMessage = r.message]
                /\ runs' = NodesReplaced(runs)
                /\ snapshot' = [snapshot EXCEPT !.processed = TRUE]
                /\ UNCHANGED <<loading, lastAttempt>>
    /\ UNCHANGED <<lastSuccessBounds, calls, lastCall>>

\* the awaited processOsmData promise settles
ProcessSettles ==
    /\ call.pc = "processed"
    /\ running = 0
    /\ UNCHANGED <<lookup, pfVars, runVars, uiVars>>
    /\ IF call.processThrew
       THEN /\ AttemptFails([name |-> "Error", message |-> call.processMessage])
            /\ UNCHANGED lastSuccessBounds
       ELSE /\ lastSuccessBounds' = call.bounds
            /\ loading' = FALSE
            /\ call' = [call EXCEPT !.pc = "idle", !.outcome = "true"]
            /\ lastAttempt' = "ok"
            /\ UNCHANGED ready
    /\ UNCHANGED <<nodes, edges, bounds, spatialIndex, nodeLocations,
                   loadProgress, calls, lastCall, snapshot>>

\* the 5 s wait after a rate-limit failure ends
RateWaitElapses ==
    /\ call.pc = "rateWait"
    /\ running = 0
    /\ UNCHANGED <<lookup, pfVars, runVars, uiVars>>
    /\ call' = RetryOrGiveUp(call)
    /\ GiveUpFlags(call')
    /\ UNCHANGED <<nodes, edges, bounds, lastSuccessBounds, spatialIndex,
                   nodeLocations, loadProgress, calls, lastCall, lastAttempt, snapshot>>

\* the backoff wait ends: the loop runs the next attempt up to its fetch()
BackoffElapses ==
    /\ call.pc = "backoff"
    /\ running = 0
    /\ UNCHANGED <<lookup, pfVars, runVars, uiVars>>
    /\ call' = [call EXCEPT !.pc = "fetch", !.fetches = @ + 1]
    /\ UNCHANGED <<netVars, calls, lastCall, lastAttempt, snapshot>>

FetchStep ==
    \/ \E error \in FetchRejections : FetchRejects(error)
    \/ \E status \in HttpStatuses : FetchResponds(status)
    \/ JsonRejects
    \/ \E data \in Responses : JsonResolves(data)
    \/ ProcessSettles
    \/ RateWaitElapses
    \/ BackoffElapses

\* a caller of the network starts a fetch
FetchRoadData(b) ==
    /\ running = 0
    /\ fetchRoadData(b)
    /\ UNCHANGED <<lookup, pfVars, runVars, uiVars>>

\* ------------------------------------------------------------------------
\* PriorityQueue: values is an array of {element, priority}
\* ------------------------------------------------------------------------
\* Array.prototype.sort with (a, b) => a.priority - b.priority is stable:
\* an insertion sort that puts each entry behind the entries not above it
\* an insertion that puts an entry in front of the entries of its priority
RECURSIVE InsertByPriority_BeforeEquals(_, _)
InsertByPriority_BeforeEquals(sorted, entry) ==
    IF sorted = <<>> THEN <<entry>>
    ELSE IF Head(sorted).priority < entry.priority
    THEN <<Head(sorted)>> \o InsertByPriority_BeforeEquals(Tail(sorted), entry)
    ELSE <<entry>> \o sorted

RECURSIVE InsertByPriority(_, _)
InsertByPriority(sorted, entry) ==
    IF sorted = <<>> THEN <<entry>>
    ELSE IF Head(sorted).priority <= entry.priority
    THEN <<Head(sorted)>> \o InsertByPriority(Tail(sorted), entry)
    ELSE <<entry>> \o sorted

RECURSIVE sort(_)
sort(values) ==
    IF values = <<>> THEN <<>>
    ELSE InsertByPriority(sort(SubSeq(values, 1, Len(values) - 1)), Last(values))

\* an enqueue that stores the entry twice
enqueue_Twice(values, element, priority) ==
    sort(Append(Append(values, [element |-> element, priority |-> priority]),
                [element |-> element, priority |-> priority]))

enqueue(values, element, priority) ==
    sort(Append(values, [element |-> element, priority |-> priority]))

\* dequeue is values.shift(): Head(values) is returned, Tail(values) remains

\* a contains that finds nothing
contains_Never(values, element) == FALSE

contains(values, element) == \E i \in 1..Len(values) : values[i].element = element
isEmpty(values) == Len(values) = 0

\* ------------------------------------------------------------------------
\* RoadPathfinder
\* ------------------------------------------------------------------------
\* a resetNodes that leaves g, h, f and parent as the last run left them
resetNodes_KeepsScores(nodeSeq) == nodeSeq

\* RoadNetwork.resetNodes
resetNodes(nodeSeq) == [i \in 1..Len(nodeSeq) |-> reset(nodeSeq[i])]

\* a heuristic that overestimates: twice the straight-line distance
heuristic_Doubled(node, endLat, endLng) ==
    2 * calculateDistance(node.lat, node.lng, endLat, endLng)

\* RoadPathfinder.heuristic(node, endNode)
heuristic(node, endLat, endLng) ==
    calculateDistance(node.lat, node.lng, endLat, endLng)

\* a getNodeNeighbors that returns the first connection only
getNodeNeighbors_FirstOnly(nodeSeq, nodeId) ==
    IF MapHas(nodeSeq, nodeId) /\ Len(MapGet(nodeSeq, nodeId).connections) > 0
    THEN <<MapGet(nodeSeq, nodeId).connections[1]>>
    ELSE <<>>

\* RoadNetwork.getNodeNeighbors: the entries of node.connections, or none
getNodeNeighbors(nodeSeq, nodeId) ==
    IF MapHas(nodeSeq, nodeId) THEN MapGet(nodeSeq, nodeId).connections ELSE <<>>

\* a neighbour loop that records the scores and forgets the parent
RelaxNeighbor_NoParent(st, currentId, conn, closed, endLat, endLng) ==
    IF conn.to \in closed THEN st
    ELSE
      LET current == MapGet(st.nodes, currentId)
          neighbor == MapGet(st.nodes, conn.to)
          tentativeG == Plus(current.g, conn.edge.distance)
      IN  IF tentativeG < neighbor.g
          THEN
            LET hh == heuristic(neighbor, endLat, endLng)
                ff == Plus(tentativeG, hh)
                ns == [st.nodes EXCEPT ![MapIdx(st.nodes, conn.to)] =
                          [@ EXCEPT !.g = tentativeG, !.h = hh, !.f = ff]]
            IN  [nodes |-> ns,
                 queue |-> IF ~contains(st.queue, conn.to)
                           THEN enqueue(st.queue, conn.to, ff)
                           ELSE st.queue]
          ELSE st

\* a neighbour loop that records a parent only for a node that has none
RelaxNeighbor_KeepsFirstParent(st, currentId, conn, closed, endLat, endLng) ==
    IF conn.to \in closed THEN st
    ELSE
      LET current == MapGet(st.nodes, currentId)
          neighbor == MapGet(st.nodes, conn.to)
          tentativeG == Plus(current.g, conn.edge.distance)
      IN  IF tentativeG < neighbor.g
          THEN
            LET hh == heuristic(neighbor, endLat, endLng)
                ff == Plus(tentativeG, hh)
                ns == [st.nodes EXCEPT ![MapIdx(st.nodes, conn.to)] =
                          [@ EXCEPT !.parent = IF @ = Null THEN currentId ELSE @,
                                    !.g = tentativeG, !.h = hh, !.f = ff]]
            IN  [nodes |-> ns,
                 queue |-> IF ~contains(st.queue, conn.to)
                           THEN enqueue(st.queue, conn.to, ff)
                           ELSE st.queue]
          ELSE st

\* a neighbour loop that enqueues a neighbour every time its g improves
RelaxNeighbor_AlwaysEnqueues(st, currentId, conn, closed, endLat, endLng) ==
    IF conn.to \in closed THEN st
    ELSE
      LET current == MapGet(st.nodes, currentId)
          neighbor == MapGet(st.nodes, conn.to)
          tentativeG == Plus(current.g, conn.edge.distance)
      IN  IF tentativeG < neighbor.g
          THEN
            LET hh == heuristic(neighbor, endLat, endLng)
                ff == Plus(tentativeG, hh)
                ns == [st.nodes EXCEPT ![MapIdx(st.nodes, conn.to)] =
                          [@ EXCEPT !.parent = currentId, !.g = tentativeG,
                                    !.h = hh, !.f = ff]]
            IN  [nodes |-> ns, queue |-> enqueue(st.queue, conn.to, ff)]
          ELSE st

\* one pass of the neighbour loop, on the pair (nodes, queue)
RelaxNeighbor(st, currentId, conn, closed, endLat, endLng) ==
    IF conn.to \in closed THEN st
    ELSE
      LET current == MapGet(st.nodes, currentId)
          neighbor == MapGet(st.nodes, conn.to)
          tentativeG == Plus(current.g, conn.edge.distance)
      IN  IF tentativeG < neighbor.g
          THEN
            LET hh == heuristic(neighbor, endLat, endLng)
                ff == Plus(tentativeG, hh)
                ns == [st.nodes EXCEPT ![MapIdx(st.nodes, conn.to)] =
                          [@ EXCEPT !.parent = currentId, !.g = tentativeG,
                                    !.h = hh, !.f = ff]]
            IN  [nodes |-> ns,
                 queue |-> IF ~contains(st.queue, conn.to)
                           THEN enqueue(st.queue, conn.to, ff)
                           ELSE st.queue]
          ELSE st

RECURSIVE RelaxNeighbors(_, _, _, _, _, _, _)
RelaxNeighbors(st, currentId, neighbors, k, closed, endLat, endLng) ==
    IF k > Len(neighbors) THEN st
    ELSE RelaxNeighbors(
           RelaxNeighbor(st, currentId, neighbors[k], closed, endLat, endLng),
           currentId, neighbors, k + 1, closed, endLat, endLng)

\* node.connections.get(id): the edge, or none
ConnFind(c, to) == SelectSeq(c, LAMBDA e : e.to = to)

\* RoadEdge.getSpeed: mph by road type, 25 for a type not in the table
getSpeed(edge) ==
    CASE edge.roadType = "motorway" -> 65
      [] edge.roadType = "trunk" -> 55
      [] edge.roadType = "primary" -> 45
      [] edge.roadType = "secondary" -> 35
      [] edge.roadType = "tertiary" -> 30
      [] edge.roadType = "residential" -> 25
      [] edge.roadType = "service" -> 15
      [] OTHER -> 25
\* RoadEdge.getTravelTime: distance * 0.000621371 / speed * 60 minutes, here
\* in hundredths of a minute, rounded down
getTravelTime(edge) == (edge.distance * 373) \div (getSpeed(edge) * 100)

\* a walk that leaves out the node without a parent at which it ends
RECURSIVE WalkParents_DropsStart(_, _, _, _)
WalkParents_DropsStart(nodeSeq, currentId, acc, fuel) ==
    LET current == MapGet(nodeSeq, currentId)
    IN  IF current.parent = Null
        THEN acc
        ELSE IF fuel = 0 THEN [acc EXCEPT !.kind = "hang"]
        ELSE
          LET found == ConnFind(MapGet(nodeSeq, current.parent).connections, currentId)
              acc1 == IF Len(found) > 0
                      THEN [acc EXCEPT
                              !.segments = <<found[1].edge>> \o @,
                              !.totalDistance = @ + found[1].edge.distance,
                              !.totalTime = @ + getTravelTime(found[1].edge)]
                      ELSE acc
          IN  WalkParents_DropsStart(nodeSeq, current.parent,
                          [acc1 EXCEPT !.nodes = <<currentId>> \o @], fuel - 1)

\* a walk that collects the segments and leaves totalDistance alone
RECURSIVE WalkParents_NoDistance(_, _, _, _)
WalkParents_NoDistance(nodeSeq, currentId, acc, fuel) ==
    LET current == MapGet(nodeSeq, currentId)
    IN  IF current.parent = Null
        THEN [acc EXCEPT !.nodes = <<currentId>> \o @]
        ELSE IF fuel = 0 THEN [acc EXCEPT !.kind = "hang"]
        ELSE
          LET found == ConnFind(MapGet(nodeSeq, current.parent).connections, currentId)
              acc1 == IF Len(found) > 0
                      THEN [acc EXCEPT
                              !.segments = <<found[1].edge>> \o @,
                              !.totalTime = @ + getTravelTime(found[1].edge)]
                      ELSE acc
          IN  WalkParents_NoDistance(nodeSeq, current.parent,
                          [acc1 EXCEPT !.nodes = <<currentId>> \o @], fuel - 1)

\* RoadPathfinder.reconstructPath: follows parent from the end node; fuel
\* bounds the walk, a walk that does not end is reported as "hang"
RECURSIVE WalkParents(_, _, _, _)
WalkParents(nodeSeq, currentId, acc, fuel) ==
    LET current == MapGet(nodeSeq, currentId)
    IN  IF current.parent = Null
        THEN [acc EXCEPT !.nodes = <<currentId>> \o @]
        ELSE IF fuel = 0 THEN [acc EXCEPT !.kind = "hang"]
        ELSE
          LET found == ConnFind(MapGet(nodeSeq, current.parent).connections, currentId)
              acc1 == IF Len(found) > 0
                      THEN [acc EXCEPT
                              !.segments = <<found[1].edge>> \o @,
                              !.totalDistance = @ + found[1].edge.distance,
                              !.totalTime = @ + getTravelTime(found[1].edge)]
                      ELSE acc
          IN  WalkParents(nodeSeq, current.parent,
                          [acc1 EXCEPT !.nodes = <<currentId>> \o @], fuel - 1)

reconstructPath(nodeSeq, endId) ==
    WalkParents(nodeSeq, endId,
                [kind |-> "path", nodes |-> <<>>, segments |-> <<>>,
                 totalDistance |-> 0, totalTime |-> 0, nodesExplored |-> 0],
                Len(nodeSeq))

\* what startPathfinding does once the awaited findPath has settled
\* (its finally block); a direct caller of findPath has no such code
AfterFindPath(caller) ==
    IF caller = "app"
    THEN /\ isSearching' = FALSE
         /\ startSearchDisabled' = FALSE
         /\ pauseSearchDisabled' = TRUE
         /\ UNCHANGED <<startMarker, endMarker, selectMode, clearPointsDisabled,
                        view, moveTimeout>>
    ELSE UNCHANGED uiVars

\* findPath returns or throws: the call is over
Settle(id, run, result) ==
    /\ runs' = [runs EXCEPT ![id] = [run EXCEPT !.pc = "done", !.result = result]]
    /\ running' = 0
    /\ AfterFindPath(run.caller)

\* findPath from its first line to the loop; the caller's variables are the
\* caller's business
findPath(id, caller, startLat, startLng, endLat, endLng) ==
    LET startId == findNearestNode(startLat, startLng).node
        endId == findNearestNode(endLat, endLng).node
        cleared == resetNodes(nodes)
        run == [UnusedRun EXCEPT !.caller = caller, !.startId = startId,
                                 !.endId = endId]
    IN  /\ pathFound' = FALSE
        /\ closedSet' = {}
        /\ UNCHANGED paused
        /\ IF startId = Null \/ endId = Null
           THEN /\ nodes' = cleared
                /\ openSet' = <<>>
                /\ runs' = [runs EXCEPT ![id] =
                              [run EXCEPT !.pc = "done",
                                          !.result = NullResult]]
                /\ running' = 0
           ELSE LET endNode == MapGet(cleared, endId)
                    hh == heuristic(MapGet(cleared, startId), endNode.lat, endNode.lng)
                IN  /\ nodes' = [cleared EXCEPT ![MapIdx(cleared, startId)] =
                                    [@ EXCEPT !.g = 0, !.h = hh, !.f = hh]]
                    /\ openSet' = enqueue(<<>>, startId, hh)
                    /\ runs' = [runs EXCEPT ![id] =
                                  [run EXCEPT !.pc = "loop", !.endLat = endNode.lat,
                                              !.endLng = endNode.lng]]
                    /\ running' = id

\* one pass of the while loop of findPath
Iterate(id) ==
    /\ running = id
    /\ runs[id].pc = "loop"
    /\ LET run == runs[id]
       IN  IF isEmpty(openSet)
           THEN \* the loop ends: 'No path found'
                /\ Settle(id, run, NullResult)
                /\ UNCHANGED <<nodes, pfVars>>
           ELSE IF paused
           THEN /\ runs' = [runs EXCEPT ![id].pc = "pauseWait"]
                /\ running' = 0
                /\ UNCHANGED <<nodes, pfVars, uiVars>>
           ELSE
             LET currentId == Head(openSet).element
                 explored == run.nodesExplored + 1
                 run1 == [run EXCEPT !.nodesExplored = explored]
                 exists == MapHas(nodes, currentId)
             IN  IF exists /\ ~run.stale /\ currentId = run.endId
                 THEN \* current === endNode
                      /\ pathFound' = TRUE
                      /\ openSet' = Tail(openSet)
                      /\ Settle(id, run1,
                                [reconstructPath(nodes, run.endId) EXCEPT
                                    !.nodesExplored = explored])
                      /\ UNCHANGED <<nodes, closedSet, paused>>
                 ELSE
                   LET closed == closedSet \cup {currentId}
                       st == RelaxNeighbors([nodes |-> nodes, queue |-> Tail(openSet)],
                                            currentId, getNodeNeighbors(nodes, currentId),
                                            1, closed, run.endLat, run.endLng)
                   IN  /\ closedSet' = closed
                       /\ nodes' = st.nodes
                       /\ openSet' = st.queue
                       /\ UNCHANGED <<paused, pathFound>>
                       /\ \E due \in BOOLEAN :
                            \* now - lastVisualization >= visualizationInterval
                            IF ~due
                            THEN /\ runs' = [runs EXCEPT ![id] = run1]
                                 /\ UNCHANGED <<running, uiVars>>
                            ELSE IF ~exists
                            THEN \* current is undefined: reading current.g throws
                                 Settle(id, run1, [NoResult EXCEPT !.kind = "error"])
                            ELSE /\ runs' = [runs EXCEPT ![id] =
                                               [run1 EXCEPT !.pc = "cbWait"]]
                                 /\ running' = 0
                                 /\ UNCHANGED uiVars
    /\ UNCHANGED <<edges, bounds, lastSuccessBounds, ready, loading, spatialIndex,
                   nodeLocations, loadProgress, fetchVars, lookup, started>>

\* a pause timer whose firing loses the head of the queue
PauseTimerFires_DropsHead(id) ==
    /\ running = 0
    /\ call.pc # "processed"
    /\ runs[id].pc = "pauseWait"
    /\ runs' = [runs EXCEPT ![id].pc = "loop"]
    /\ running' = id
    /\ openSet' = Tail(openSet)
    /\ UNCHANGED <<netVars, fetchVars, lookup, closedSet, paused, pathFound,
                   started, uiVars>>

\* a pause wait that is never followed by another pass of the loop
PauseTimerFires_NeverResumes(id) ==
    /\ running = 0
    /\ call.pc # "processed"
    /\ runs[id].pc = "pauseWait"
    /\ UNCHANGED vars

\* a pause timer whose firing counts as an explored node
PauseTimerFires_Counts(id) ==
    /\ running = 0
    /\ call.pc # "processed"
    /\ runs[id].pc = "pauseWait"
    /\ runs' = [runs EXCEPT ![id].pc = "loop", ![id].nodesExplored = @ + 1]
    /\ running' = id
    /\ UNCHANGED <<netVars, fetchVars, lookup, pfVars, started, uiVars>>

\* the 100 ms pause timer fires: the loop takes its next pass
PauseTimerFires(id) ==
    /\ running = 0
    /\ call.pc # "processed"
    /\ runs[id].pc = "pauseWait"
    /\ runs' = [runs EXCEPT ![id].pc = "loop"]
    /\ running' = id
    /\ UNCHANGED <<netVars, fetchVars, lookup, pfVars, started, uiVars>>

\* a loop that does not wait for the callback: the next node is extracted
\* while the promise is still pending
CallbackResolves_Extracts(id) ==
    /\ running = 0
    /\ runs[id].pc = "cbWait"
    /\ runs' = [runs EXCEPT ![id].nodesExplored = @ + 1]
    /\ openSet' = IF isEmpty(openSet) THEN openSet ELSE Tail(openSet)
    /\ UNCHANGED <<netVars, fetchVars, lookup, closedSet, paused, pathFound,
                   started, running, uiVars>>

\* the promise returned by the progress callback resolves
CallbackResolves(id) ==
    /\ running = 0
    /\ runs[id].pc = "cbWait"
    /\ runs' = [runs EXCEPT ![id].pc = "loop"]
    /\ running' = id
    /\ UNCHANGED <<netVars, fetchVars, lookup, pfVars, started, uiVars>>

\* RoadPathfinder.setPaused
SetPaused(p) ==
    /\ running = 0
    /\ paused # p
    /\ paused' = p
    /\ UNCHANGED <<netVars, fetchVars, lookup, openSet, closedSet, pathFound,
                   runVars, uiVars>>

\* a caller of the pathfinder starts a search; searches are serialized
FindPath(startLat, startLng, endLat, endLng) ==
    /\ running = 0
    /\ started < MaxRuns
    /\ \A i \in RunIds : ~InFlight(runs[i])
    /\ started' = started + 1
    /\ findPath(started + 1, "api", startLat, startLng, endLat, endLng)
    /\ UNCHANGED <<edges, bounds, lastSuccessBounds, ready, loading, spatialIndex,
                   nodeLocations, loadProgress, fetchVars, lookup, uiVars>>

\* ------------------------------------------------------------------------
\* Initial states
\* ------------------------------------------------------------------------
NoMarker == [set |-> FALSE, lat |-> 0, lng |-> 0]

InitPathfinder ==
    /\ openSet = <<>>
    /\ closedSet = {}
    /\ paused = FALSE
    /\ pathFound = FALSE
    /\ runs = [i \in RunIds |-> UnusedRun]
    /\ started = 0
    /\ running = 0

\* index.html: the three buttons start disabled; the map opens at zoom 4
InitUI ==
    /\ startMarker = NoMarker
    /\ endMarker = NoMarker
    /\ selectMode = "start"
    /\ isSearching = FALSE
    /\ startSearchDisabled = TRUE
    /\ pauseSearchDisabled = TRUE
    /\ clearPointsDisabled = TRUE
    /\ view = [zoom |-> 4, bounds |-> WideBounds]
    /\ moveTimeout = FALSE

\* ------------------------------------------------------------------------
\* The network on its own: fetchRoadData and findNearestNode called freely
\* ------------------------------------------------------------------------
\* the points looked up: one that is a node of some data sets, one that never is
LookupPoints == {<<0, 0>>, <<2 * Degree, 2 * Degree>>}

InitNet == InitNetwork /\ InitFetch /\ InitPathfinder /\ InitUI

NextNet ==
    \/ \E b \in BoundsSet : FetchRoadData(b)
    \/ FetchStep
    \/ \E q \in LookupPoints : CallFindNearestNode(q[1], q[2])

SpecNet == InitNet /\ [][NextNet]_vars

\* ------------------------------------------------------------------------
\* The PriorityQueue on its own: a caller that enqueues and dequeues freely.
\* The caller numbers the elements in the order it enqueues them and keeps
\* the elements it got back from dequeue in closedSet.
\* ------------------------------------------------------------------------
MaxEnqueues == 4
QueuePriorities == {0, 1, Infinity}

Enqueued == Len(openSet) + Cardinality(closedSet)

CallEnqueue(priority) ==
    /\ Enqueued < MaxEnqueues
    /\ openSet' = enqueue(openSet, Enqueued + 1, priority)
    /\ UNCHANGED <<netVars, fetchVars, lookup, closedSet, paused, pathFound,
                   runVars, uiVars>>

\* values.shift() on a non-empty array (on an empty one it returns undefined
\* and changes nothing)
CallDequeue ==
    /\ ~isEmpty(openSet)
    /\ openSet' = Tail(openSet)
    /\ closedSet' = closedSet \cup {Head(openSet).element}
    /\ UNCHANGED <<netVars, fetchVars, lookup, paused, pathFound, runVars, uiVars>>

NextQueue ==
    \/ \E priority \in QueuePriorities : CallEnqueue(priority)
    \/ CallDequeue

SpecQueue == InitNet /\ [][NextQueue]_vars

\* ------------------------------------------------------------------------
\* The pathfinder on a built graph: findPath called by a serializing caller
\* ------------------------------------------------------------------------
\* six points, six two-way streets and a one-way street; the graphs searched
\* are built from the points and from all the streets or all but one
SearchPoints ==
    <<OsmNode(1, 2 * Degree, Degree), OsmNode(2, Degree, 0), OsmNode(3, 0, Degree),
      OsmNode(4, Degree, 2 * Degree), OsmNode(5, 0, 2 * Degree), OsmNode(6, Degree, Degree)>>
SearchWays ==
    <<OsmWay(1, "residential", "", <<1, 4>>),
      OsmWay(2, "residential", "", <<4, 6>>),
      OsmWay(3, "residential", "", <<3, 6>>),
      OsmWay(4, "primary", "", <<4, 5>>),
      OsmWay(5, "primary", "", <<1, 2>>),
      OsmWay(6, "secondary", "", <<1, 3>>),
      OsmWay(7, "secondary", "yes", <<5, 2>>)>>
WaysWithout(k) == SelectSeq(SearchWays, LAMBDA w : w.id # k)
SearchData == {OsmData(SearchPoints \o WaysWithout(k)) : k \in 0..Len(SearchWays)}
\* where searches start and end: two nodes and a point without a node
QueryPoints == {<<Degree, Degree>>, <<Degree, 0>>, <<0, 0>>}

\* the state after a first fetchRoadData(b) that succeeded at once with data
Built(data, b) ==
    LET r == processOsmData(data, 50)
    IN  /\ ~r.threw
        /\ nodes = r.nodes
        /\ edges = r.edges
        /\ spatialIndex = r.spatialIndex
        /\ nodeLocations = r.nodeLocations
        /\ loadProgress = r.loadProgress
        /\ ready = r.ready
        /\ loading = FALSE
        /\ bounds = b
        /\ lastSuccessBounds = b
        /\ call = [IdleCall EXCEPT !.bounds = b, !.fetches = 1, !.outcome = "true"]
        /\ calls = 1
        /\ lastCall = "started"
        /\ lastAttempt = "ok"
        /\ lookup = NoLookup
        /\ snapshot = [NoSnapshot EXCEPT !.processed = TRUE]

\* the area whose roads were fetched: findPath never reads it
SearchBounds == [south |-> 0, west |-> 0, north |-> 5, east |-> 5]

InitSearch ==
    /\ \E data \in SearchData : Built(data, SearchBounds)
    /\ InitPathfinder
    /\ InitUI

NextSearch ==
    \/ \E s \in QueryPoints, e \in QueryPoints : FindPath(s[1], s[2], e[1], e[2])
    \/ \E id \in RunIds : Iterate(id)
    \/ \E id \in RunIds : PauseTimerFires(id)
    \/ \E id \in RunIds : CallbackResolves(id)
    \/ \E p \in BOOLEAN : SetPaused(p)

SpecSearch == InitSearch /\ [][NextSearch]_vars

\* ------------------------------------------------------------------------
\* One findPath run between any two nodes of a built graph
\* ------------------------------------------------------------------------
\* the positions of the six nodes
NodePoints == {<<SearchPoints[i].lat, SearchPoints[i].lon>> : i \in 1..Len(SearchPoints)}

NextRun ==
    \/ \E s \in NodePoints, e \in NodePoints :
          started = 0 /\ FindPath(s[1], s[2], e[1], e[2])
    \/ \E id \in RunIds : Iterate(id)
    \/ \E id \in RunIds : PauseTimerFires(id)
    \/ \E id \in RunIds : CallbackResolves(id)
    \/ \E p \in BOOLEAN : SetPaused(p)

SpecRun == InitSearch /\ [][NextRun]_vars

\* the event loop runs every task that is ready and fires every timer that
\* is due: a pass of the loop that can be taken is taken, and the 100 ms
\* pause timer fires
\* Iterate(id) is enabled exactly in the states of LoopReady(id) and always
\* changes the run, so the first conjunct is WF_vars(Iterate(id)) written
\* with its enabling condition.
LoopReady(id) == running = id /\ runs[id].pc = "loop"
SpecRunFair ==
    /\ SpecRun
    /\ \A id \in RunIds :
          /\ []<>(~LoopReady(id)) \/ []<><<Iterate(id)>>_vars
          /\ WF_vars(PauseTimerFires(id))

\* ------------------------------------------------------------------------
\* findNearestNode on built graphs whose nodes lie tens of metres apart
\* ------------------------------------------------------------------------
\* four points near 60 N and the six streets between them; the graphs
\* looked up are built from the points and from one or two of the streets
NearNodes ==
    <<OsmNode(1, 60 * Degree, 15), OsmNode(2, 60 * Degree + 9, 0),
      OsmNode(3, 60 * Degree, 9), OsmNode(4, 60 * Degree + 9, 24)>>
NearWays ==
    <<OsmWay(1, "residential", "", <<1, 2>>),
      OsmWay(2, "residential", "", <<1, 3>>),
      OsmWay(3, "residential", "", <<1, 4>>),
      OsmWay(4, "residential", "", <<2, 3>>),
      OsmWay(5, "residential", "", <<2, 4>>),
      OsmWay(6, "residential", "", <<3, 4>>)>>
NearData ==
    {OsmData(NearNodes \o SelectSeq(NearWays, LAMBDA w : w.id \in W)) :
        W \in {V \in SUBSET (1..Len(NearWays)) : Cardinality(V) \in {1, 2}}}
\* the points looked up
NearQueries == NearLats \X NearLons

InitNearest ==
    /\ \E data \in NearData : \E b \in BoundsSet : Built(data, b)
    /\ InitPathfinder
    /\ InitUI

NextNearest == \E q \in NearQueries : CallFindNearestNode(q[1], q[2])

SpecNearest == InitNearest /\ [][NextNearest]_vars

\* ------------------------------------------------------------------------
\* processOsmData called by a caller of the network, on varied map data
\* ------------------------------------------------------------------------
\* the most ways in one response
MaxWays == 2

\* four points on a square, a point without coordinates (5) and a point at
\* the place of point 1 (6); the ids 7 and 8 belong to no point
BuildPoints ==
    <<OsmNode(1, 0, 0), OsmNode(2, 0, Degree), OsmNode(3, Degree, 0),
      OsmNode(4, Degree, Degree), OsmNode(5, NotANumber, Degree), OsmNode(6, 0, 0)>>
\* two-way and one-way streets, ways through missing points and through the
\* point without coordinates, a way of one reference, a way that lists a
\* point twice in a row, a way between two points at one place, a way
\* without highway tag, and a one-way street against street 1
BuildWays ==
    <<OsmWay(1, "residential", "", <<1, 2>>),
      OsmWay(2, "primary", "yes", <<1, 3>>),
      OsmWay(3, "secondary", "", <<2, 4, 3>>),
      OsmWay(4, "tertiary", "", <<1, 7, 2>>),
      OsmWay(5, "residential", "yes", <<1, 2, 7, 3, 4>>),
      OsmWay(6, "service", "", <<7, 8>>),
      OsmWay(7, "residential", "", <<3>>),
      OsmWay(8, "residential", "", <<2, 5, 4, 3>>),
      OsmWay(9, "residential", "", <<1, 1, 2>>),
      OsmWay(10, "residential", "yes", <<1, 6>>),
      OsmWay(11, "trunk", "no", <<3, 4>>),
      OsmWay(12, "", "", <<1, 4>>),
      OsmWay(13, "motorway", "yes", <<2, 1>>),
      OsmWay(14, "residential", "", <<>>)>>
WaysOf(W) == SelectSeq(BuildWays, LAMBDA w : w.id \in W)
\* responses with at most MaxWays of the ways, with the points or without
BuildInputs ==
    {OsmData((IF withPoints THEN BuildPoints ELSE <<>>) \o WaysOf(W)) :
        withPoints \in BOOLEAN,
        W \in {V \in SUBSET (1..Len(BuildWays)) : Cardinality(V) <= MaxWays}}
       \cup {MalformedData}

\* network.processOsmData(data), awaited by its caller; one call in a
\* behaviour, made on a new network or on one that holds a graph
CallProcessOsmData(data) ==
    /\ running = 0
    /\ ~loading
    /\ call.outcome \notin {"built", "threw"}
    /\ LET r == processOsmData(data, loadProgress)
       IN  /\ nodes' = r.nodes
           /\ edges' = r.edges
           /\ spatialIndex' = r.spatialIndex
           /\ nodeLocations' = r.nodeLocations
           /\ loadProgress' = r.loadProgress
           /\ ready' = r.ready
           /\ bounds' = IF r.threw THEN NullBounds ELSE bounds
           /\ call' = [IdleCall EXCEPT !.data = data,
                                       !.processThrew = r.threw,
                                       !.processMessage = r.message,
                                       !.outcome = IF r.threw THEN "threw" ELSE "built"]
    /\ runs' = NodesReplaced(runs)
    /\ UNCHANGED <<lastSuccessBounds, loading, calls, lastCall, lastAttempt,
                   snapshot, lookup, pfVars, started, running, uiVars>>

NextBuild == \E data \in BuildInputs : CallProcessOsmData(data)

InitBuild ==
    \/ InitNet
    \/ Built(DataSquare, SearchBounds) /\ InitPathfinder /\ InitUI

SpecBuild == InitBuild /\ [][NextBuild]_vars

\* ------------------------------------------------------------------------
\* PathfindingVisualizer: the event handlers
\* ------------------------------------------------------------------------
\* handleMapMoveEnd and handleMapClick act from zoom level 15 on
minZoomForRoads == 15
\* loadRoadsInView rejects a span above 0.1 degrees (bounds are in hundredths)
maxSpan == 10

\* the views the user moves between: zoomed out, zoomed in on a small box,
\* zoomed in with a box wider than the limit
Views ==
    {[zoom |-> 4, bounds |-> WideBounds]} \cup
    {[zoom |-> 15, bounds |-> b] : b \in {WideBounds, [south |-> 0, west |-> 0, north |-> 5, east |-> 5]}}
\* where the user clicks: two node positions of the data and an empty spot
ClickPoints == {<<0, 0>>, <<0, Degree>>, <<2 * Degree, 2 * Degree>>}
\* what the Overpass server answers while the page is used: every request
\* is served, with a small road network
ServerStatuses == {200}
ServerData == {DataOneWay}

\* no task is executing and no promise continuation is about to run: the
\* event loop may take the next event or timer
EventLoopFree == running = 0 /\ call.pc # "processed"

MarkerAt(node) == [set |-> TRUE, lat |-> node.lat, lng |-> node.lng]

\* loadRoadsInView testing the latitude span only
loadRoadsInView_LatOnly(b) ==
    IF loading
    THEN UNCHANGED <<netVars, fetchVars>>
    ELSE IF b.north - b.south > maxSpan
    THEN UNCHANGED <<netVars, fetchVars>>
    ELSE fetchRoadData(b)

\* loadRoadsInView(bounds) up to its first await; what follows the await
\* changes the page only
loadRoadsInView(b) ==
    IF loading
    THEN UNCHANGED <<netVars, fetchVars>>
    ELSE IF b.north - b.south > maxSpan \/ b.east - b.west > maxSpan
    THEN \* 'Area too large - Please zoom in further'
         UNCHANGED <<netVars, fetchVars>>
    ELSE fetchRoadData(b)

\* the map is moved or zoomed: the moveend handler re-arms the debounce timer
MapMoves(v) ==
    /\ EventLoopFree
    /\ view # v
    /\ view' = v
    /\ moveTimeout' = TRUE
    /\ UNCHANGED <<netVars, fetchVars, lookup, pfVars, runVars, startMarker,
                   endMarker, selectMode, isSearching, startSearchDisabled,
                   pauseSearchDisabled, clearPointsDisabled>>

\* the debounce timer fires: handleMapMoveEnd
HandleMapMoveEnd ==
    /\ EventLoopFree
    /\ moveTimeout
    /\ moveTimeout' = FALSE
    /\ IF view.zoom >= minZoomForRoads
       THEN loadRoadsInView(view.bounds)
       ELSE UNCHANGED <<netVars, fetchVars>>
    /\ UNCHANGED <<lookup, pfVars, runVars, startMarker, endMarker, selectMode,
                   isSearching, startSearchDisabled, pauseSearchDisabled,
                   clearPointsDisabled, view>>

\* a click on the map: handleMapClick
HandleMapClick(lat, lng) ==
    /\ EventLoopFree
    /\ UNCHANGED <<lookup, pfVars, runVars, isSearching, pauseSearchDisabled,
                   view, moveTimeout>>
    /\ IF view.zoom < minZoomForRoads \/ loading
       THEN UNCHANGED <<netVars, fetchVars, startMarker, endMarker, selectMode,
                        startSearchDisabled, clearPointsDisabled>>
       ELSE IF ~ready \/ Len(nodes) = 0
       THEN /\ loadRoadsInView(view.bounds)
            /\ UNCHANGED <<startMarker, endMarker, selectMode,
                           startSearchDisabled, clearPointsDisabled>>
       ELSE
         LET nodeId == findNearestNode(lat, lng).node
         IN  /\ UNCHANGED <<netVars, fetchVars>>
             /\ IF nodeId = Null
                THEN UNCHANGED <<startMarker, endMarker, selectMode,
                                 startSearchDisabled, clearPointsDisabled>>
                ELSE /\ IF selectMode = "start"
                        THEN /\ startMarker' = MarkerAt(MapGet(nodes, nodeId))
                             /\ selectMode' = "end"
                             /\ UNCHANGED endMarker
                        ELSE /\ endMarker' = MarkerAt(MapGet(nodes, nodeId))
                             /\ UNCHANGED <<startMarker, selectMode>>
                     /\ startSearchDisabled' = ~(startMarker'.set /\ endMarker'.set)
                     /\ clearPointsDisabled' = ~(startMarker'.set \/ endMarker'.set)

\* the selectMode control changes
SelectModeChanges(mode) ==
    /\ EventLoopFree
    /\ selectMode # mode
    /\ selectMode' = mode
    /\ UNCHANGED <<netVars, fetchVars, lookup, pfVars, runVars, startMarker,
                   endMarker, isSearching, startSearchDisabled,
                   pauseSearchDisabled, clearPointsDisabled, view, moveTimeout>>

\* a click on Clear Points: clearPoints
ClearPoints ==
    /\ EventLoopFree
    /\ ~clearPointsDisabled
    /\ startMarker' = NoMarker
    /\ endMarker' = NoMarker
    /\ startSearchDisabled' = TRUE
    /\ clearPointsDisabled' = TRUE
    /\ isSearching' = FALSE
    /\ selectMode' = "start"
    /\ UNCHANGED <<netVars, fetchVars, lookup, pfVars, runVars,
                   pauseSearchDisabled, view, moveTimeout>>

\* a click on Find Path: startPathfinding up to the first await of findPath
StartPathfinding ==
    /\ EventLoopFree
    /\ ~startSearchDisabled
    /\ UNCHANGED <<edges, bounds, lastSuccessBounds, ready, loading, spatialIndex,
                   nodeLocations, loadProgress, fetchVars, lookup, startMarker,
                   endMarker, selectMode, clearPointsDisabled, view, moveTimeout>>
    /\ IF ~startMarker.set \/ ~endMarker.set
       THEN \* the return inside try still runs the finally block
            /\ isSearching' = FALSE
            /\ startSearchDisabled' = FALSE
            /\ pauseSearchDisabled' = TRUE
            /\ UNCHANGED <<nodes, pfVars, runVars>>
       ELSE /\ started < MaxRuns
            /\ started' = started + 1
            /\ findPath(started + 1, "app", startMarker.lat, startMarker.lng,
                        endMarker.lat, endMarker.lng)
            /\ IF runs'[started + 1].pc = "done"
               THEN \* findPath returned at once: the finally block follows
                    /\ isSearching' = FALSE
                    /\ startSearchDisabled' = FALSE
                    /\ pauseSearchDisabled' = TRUE
               ELSE /\ isSearching' = TRUE
                    /\ startSearchDisabled' = TRUE
                    /\ pauseSearchDisabled' = FALSE

\* a click on Pause / Resume: togglePause
TogglePause ==
    /\ EventLoopFree
    /\ ~pauseSearchDisabled
    /\ IF isSearching
       THEN isSearching' = FALSE /\ paused' = TRUE
       ELSE isSearching' = TRUE /\ paused' = FALSE
    /\ UNCHANGED <<netVars, fetchVars, lookup, openSet, closedSet, pathFound,
                   runVars, startMarker, endMarker, selectMode,
                   startSearchDisabled, pauseSearchDisabled, clearPointsDisabled,
                   view, moveTimeout>>

\* ------------------------------------------------------------------------
\* The application: user events, network responses, timers and promises
\* ------------------------------------------------------------------------
Init == InitNetwork /\ InitFetch /\ InitPathfinder /\ InitUI

Next ==
    \/ \E v \in Views : MapMoves(v)
    \/ HandleMapMoveEnd
    \/ \E q \in ClickPoints : HandleMapClick(q[1], q[2])
    \/ \E mode \in {"start", "end"} : SelectModeChanges(mode)
    \/ ClearPoints
    \/ StartPathfinding
    \/ TogglePause
    \/ \E status \in ServerStatuses : FetchResponds(status)
    \/ \E data \in ServerData : JsonResolves(data)
    \/ ProcessSettles
    \/ \E id \in RunIds : Iterate(id)
    \/ \E id \in RunIds : PauseTimerFires(id)
    \/ \E id \in RunIds : CallbackResolves(id)

Spec == Init /\ [][Next]_vars

\* ------------------------------------------------------------------------
\* The page while the user only moves the map: handleMapMoveEnd and the
\* fetchRoadData calls it starts, against a server that may fail
\* ------------------------------------------------------------------------
\* boxes of the zoomed-in map: inside the limit, exactly at the limit, too
\* tall, too wide
LoadBoxes ==
    {[south |-> 0, west |-> 0, north |-> 5, east |-> 5],
     [south |-> 0, west |-> 0, north |-> 10, east |-> 10],
     WideBounds,
     [south |-> 0, west |-> 0, north |-> 5, east |-> 11]}
LoadViews ==
    {[zoom |-> 4, bounds |-> WideBounds]} \cup
    {[zoom |-> 15, bounds |-> b] : b \in LoadBoxes}

NextView ==
    \/ \E v \in LoadViews : MapMoves(v)
    \/ HandleMapMoveEnd
    \/ FetchStep

SpecView == Init /\ [][NextView]_vars

\* ------------------------------------------------------------------------
\* Properties of fetchRoadData, processOsmData and findNearestNode
\* ------------------------------------------------------------------------
CallEnded == call.pc = "idle"
CallFailed == call.pc = "idle" /\ call.outcome = "throw"

\* C4: a fetchRoadData call made while another call on the network has not
\* ended returns false, starts no fetch and leaves loading, ready, bounds,
\* nodes, edges, the spatial index and loadProgress as they were
C4_OverlappingCallRejected ==
    [][(calls' = calls + 1 /\ ~CallEnded) =>
          /\ lastCall' = "false"
          /\ call' = call
          /\ UNCHANGED <<loading, ready, bounds, nodes, edges, spatialIndex,
                         nodeLocations, loadProgress>>]_vars

\* a call was rejected while the first call was waiting for its response
C4_Witness == lastCall = "false" /\ calls = 2 /\ call.pc = "fetch" /\ loading

\* C5: once an attempt has yielded a response without an elements array, the
\* call has ended by throwing, without another attempt, and nodes and edges
\* are empty
C5_MalformedFailsFast ==
    (lastAttempt = InvalidResponseError.message) =>
        /\ CallFailed
        /\ call.fetches = 1
        /\ nodes = <<>>
        /\ edges = <<>>

\* C6: a call makes at most 3 fetch attempts; it throws only after 3 failed
\* attempts and then carries the reason of the third; an attempt that
\* succeeds ends the call with true
C6_RetryLimit ==
    /\ call.fetches <= maxRetries
    /\ call.retryCount = maxRetries => CallFailed
    /\ CallFailed =>
          /\ call.fetches = maxRetries
          /\ call.retryCount = maxRetries
          /\ lastAttempt # "ok"
          /\ call.thrown = FailedMessage(lastAttempt)
    /\ lastAttempt = "ok" => (CallEnded /\ call.outcome = "true")
    /\ (CallEnded /\ call.outcome = "true") => lastAttempt = "ok"

\* a call has thrown after three attempts that failed for different reasons
C6_Witness ==
    /\ CallFailed
    /\ call.fetches = 3
    /\ call.thrown = "Failed to fetch road data after 3 attempts: HTTP error! status: 429"
    /\ snapshot.processed

\* C7: whenever a fetch/build call has failed (fetchRoadData has thrown, or
\* processOsmData has thrown), nodes and edges are empty and ready is false
C7_FailureClearsGraph ==
    (CallFailed \/ (call.pc = "processed" /\ call.processThrew)) =>
        /\ nodes = <<>>
        /\ edges = <<>>
        /\ ~ready

C9_ReadyMeansBuilt ==
    ready =>
        /\ spatialIndex.built
        /\ spatialIndex.points = IndexPoints(nodes)
        /\ nodeLocations = NodeLocationsOf(nodes)
        /\ nodes # <<>>
        /\ edges # <<>>

\* a graph is ready after a rebuild
C9_Witness == ready /\ calls = 2 /\ Len(nodes) = 4 /\ snapshot.ready

\* C10: a findNearestNode call made while loading is true, or ready is false,
\* or the spatial index is absent, returns none and does not query the index
C10_LookupRefused ==
    /\ (lookup.made /\ (lookup.loading \/ ~lookup.ready \/ ~lookup.hadIndex)) =>
          (lookup.node = Null /\ ~lookup.readIndex)
    /\ (loading \/ ~ready \/ ~spatialIndex.built) =>
          \A q \in LookupPoints :
              LET r == findNearestNode(q[1], q[2])
              IN  r.node = Null /\ ~r.readIndex

\* a lookup of a node's position was made while the graph was built and
\* ready but the fetchRoadData call had not yet cleared loading
C10_Witness ==
    /\ lookup.made
    /\ lookup.loading
    /\ lookup.ready
    /\ lookup.hadIndex
    /\ lookup.lat = 0
    /\ lookup.lng = 0
    /\ MapHas(nodes, 1)

\* ------------------------------------------------------------------------
\* Properties of findPath
\* ------------------------------------------------------------------------
Min(a, b) == IF a <= b THEN a ELSE b

\* the least sum of edge distances over the directed paths of at most k
\* edges from node s to node t (Infinity if there is none)
RECURSIVE MinDist(_, _, _, _)
RECURSIVE MinOver(_, _, _, _, _)
MinOver(nodeSeq, conns, i, t, k) ==
    IF i > Len(conns) THEN Infinity
    ELSE Min(Plus(conns[i].edge.distance, MinDist(nodeSeq, conns[i].to, t, k - 1)),
             MinOver(nodeSeq, conns, i + 1, t, k))
MinDist(nodeSeq, s, t, k) ==
    IF s = t THEN 0
    ELSE IF k = 0 THEN Infinity
    ELSE MinOver(nodeSeq, MapGet(nodeSeq, s).connections, 1, t, k)

ShortestDistance(nodeSeq, s, t) == MinDist(nodeSeq, s, t, Len(nodeSeq) - 1)

\* edge distances are not negative, and the heuristic towards (lat, lng) is
\* consistent: h(u) <= distance(u, v) + h(v) on every edge u -> v
ConsistentHeuristic(nodeSeq, lat, lng) ==
    \A i \in 1..Len(nodeSeq) : \A k \in 1..Len(nodeSeq[i].connections) :
        LET c == nodeSeq[i].connections[k]
        IN  /\ c.edge.distance >= 0
            /\ heuristic(nodeSeq[i], lat, lng) <=
                 c.edge.distance + heuristic(MapGet(nodeSeq, c.to), lat, lng)

ReturnedPath(run) == run.pc = "done" /\ run.result.kind = "path"

\* C1: whenever findPath has returned a path on a graph with non-negative
\* edge distances and a consistent heuristic, the path's totalDistance is
\* the least sum of edge distances over all directed paths from the
\* resolved start node to the resolved goal node
C1_ShortestPath ==
    \A id \in RunIds :
        (/\ ReturnedPath(runs[id])
         /\ ConsistentHeuristic(nodes, runs[id].endLat, runs[id].endLng)) =>
            runs[id].result.totalDistance =
                ShortestDistance(nodes, runs[id].startId, runs[id].endId)

\* ------------------------------------------------------------------------
\* Properties of the application
\* ------------------------------------------------------------------------
\* the findPath runs that have started and not yet returned
RunsInFlight == {id \in RunIds : InFlight(runs[id])}

DistanceTo(lat, lng, node) == calculateDistance(lat, lng, node.lat, node.lng)

\* C11: a findNearestNode call on a ready graph returns none if and only if
\* no node lies within searchRadius metres of the point, and otherwise
\* returns a node of least great-circle distance to the point
C11_NearestWithinRadius ==
    (lookup.made /\ lookup.ready /\ ~lookup.loading) =>
        LET near == {i \in 1..Len(nodes) :
                        DistanceTo(lookup.lat, lookup.lng, nodes[i]) <= searchRadius}
        IN  /\ (lookup.node = Null) <=> (near = {})
            /\ lookup.node # Null =>
                  \A i \in 1..Len(nodes) :
                      DistanceTo(lookup.lat, lookup.lng, MapGet(nodes, lookup.node))
                          <= DistanceTo(lookup.lat, lookup.lng, nodes[i])

\* ------------------------------------------------------------------------
\* Properties of the outcomes of findPath
\* ------------------------------------------------------------------------
\* the run returned at once because its start or its end resolved to no node
UnresolvedQuery(run) ==
    run.pc = "done" /\ (run.startId = Null \/ run.endId = Null)

\* the run took the exit after the while loop: the queue ran empty and the
\* goal was never extracted
QueueExhausted(run) ==
    /\ run.pc = "done"
    /\ run.startId # Null /\ run.endId # Null
    /\ run.result.kind \notin {"path", "error"}

\* C12: a findPath whose start or end resolves to no node ends with an
\* outcome that differs from the one of a search that found no path, and
\* takes no search step: nothing is explored, queued or closed
C12_InvalidQueryOutcome ==
    [][\A id \in RunIds :
          (runs[id].pc = "unused" /\ UnresolvedQuery(runs'[id])) =>
              /\ runs'[id].result # NullResult
              /\ runs'[id].nodesExplored = 0
              /\ openSet' = <<>> /\ closedSet' = {}]_vars

\* C13: a findPath whose queue runs empty before the goal is extracted
\* returns a no-path-found result that is not an error and that carries the
\* number of nodes explored
C13_NoPathOutcome ==
    \A id \in RunIds :
        QueueExhausted(runs[id]) =>
            /\ runs[id].result # NullResult
            /\ runs[id].result.nodesExplored = runs[id].nodesExplored

\* the while loop of findPath run from (nodeSeq, queue, closed) to its
\* return with paused = false throughout; every pass closes a node that is
\* never queued again, so fuel = number of nodes + 1 is never used up
RECURSIVE RunLoop(_, _, _, _, _, _, _, _)
RunLoop(nodeSeq, queue, closed, explored, endId, endLat, endLng, fuel) ==
    IF isEmpty(queue) THEN NullResult
    ELSE IF fuel = 0 THEN [NoResult EXCEPT !.kind = "hang"]
    ELSE
      LET currentId == Head(queue).element
      IN  IF currentId = endId
          THEN [reconstructPath(nodeSeq, endId) EXCEPT !.nodesExplored = explored + 1]
          ELSE
            LET closed1 == closed \cup {currentId}
                st == RelaxNeighbors([nodes |-> nodeSeq, queue |-> Tail(queue)],
                                     currentId, getNodeNeighbors(nodeSeq, currentId),
                                     1, closed1, endLat, endLng)
            IN  RunLoop(st.nodes, st.queue, closed1, explored + 1,
                        endId, endLat, endLng, fuel - 1)

\* what findPath returns for resolved start and end nodes on the graph of
\* nodeSeq when it is never paused
UninterruptedResult(nodeSeq, startId, endId) ==
    LET cleared == resetNodes(nodeSeq)
        endNode == MapGet(cleared, endId)
        hh == heuristic(MapGet(cleared, startId), endNode.lat, endNode.lng)
        init == [cleared EXCEPT ![MapIdx(cleared, startId)] =
                    [@ EXCEPT !.g = 0, !.h = hh, !.f = hh]]
    IN  RunLoop(init, enqueue(<<>>, startId, hh), {}, 0, endId,
                endNode.lat, endNode.lng, Len(nodeSeq) + 1)

\* what a run that has started is going to return, or has returned, if
\* from its present state on the loop is never paused
FinalResult(id) ==
    IF runs[id].pc = "done" THEN runs[id].result
    ELSE RunLoop(nodes, openSet, closedSet, runs[id].nodesExplored,
                 runs[id].endId, runs[id].endLat, runs[id].endLng, Len(nodes) + 1)

\* C14: a findPath that is paused and resumed, any number of times,
\* returns what the uninterrupted run returns: at every point of a run, in
\* the pause timer or out of it, the result it is heading for, and in the
\* end returns, is the result of the run that is never paused (the same
\* node sequence, segments, totalDistance and nodesExplored, or null)
C14_PauseKeepsResult ==
    \A id \in RunIds :
        (runs[id].pc # "unused" /\ runs[id].startId # Null /\ runs[id].endId # Null) =>
            FinalResult(id) =
                UninterruptedResult(nodes, runs[id].startId, runs[id].endId)

\* a run that has explored nodes and has more in its queue waits in the
\* pause timer after paused was set and cleared again
C14_Witness ==
    \E id \in RunIds :
        /\ runs[id].pc = "pauseWait" /\ ~paused
        /\ runs[id].nodesExplored >= 1
        /\ ~isEmpty(openSet)
        /\ FinalResult(id).kind = "path"
        /\ Len(FinalResult(id).segments) >= 2

\* two findPath calls that have both returned, for the same resolved start
\* and end nodes
SameQuery(i, j) ==
    /\ i # j
    /\ runs[i].pc = "done" /\ runs[j].pc = "done"
    /\ runs[i].startId # Null /\ runs[i].endId # Null
    /\ runs[i].startId = runs[j].startId /\ runs[i].endId = runs[j].endId

\* C15: findPath run twice in sequence for the same start and end on an
\* unmodified graph returns the same node sequence, totalDistance and
\* nodesExplored both times, whatever g, h, f and parent the first run left
C15_RepeatableResult ==
    \A i \in RunIds : \A j \in RunIds :
        SameQuery(i, j) =>
            /\ runs[i].result.kind = runs[j].result.kind
            /\ runs[i].result.nodes = runs[j].result.nodes
            /\ runs[i].result.totalDistance = runs[j].result.totalDistance
            /\ runs[i].result.nodesExplored = runs[j].result.nodesExplored

\* the second of two runs for the same nodes has returned a path of two
\* segments or more, on nodes that still carried the scores of the first
C15_Witness ==
    \E i \in RunIds : \E j \in RunIds :
        /\ SameQuery(i, j) /\ i < j
        /\ ReturnedPath(runs[j])
        /\ Len(runs[j].result.segments) >= 2

AwaitsCallback(run) == run.pc = "cbWait"

\* C17: from the moment a run has invoked the progress callback until the
\* callback's promise resolves, the run extracts no node and no node's g,
\* h, f or parent changes; when the promise resolves the loop goes on from
\* exactly that state
C17_Backpressure ==
    [][\A id \in RunIds :
          AwaitsCallback(runs[id]) =>
              /\ runs'[id].pc \in {"cbWait", "loop"}
              /\ runs'[id].nodesExplored = runs[id].nodesExplored
              /\ nodes' = nodes
              /\ openSet' = openSet
              /\ closedSet' = closedSet]_vars

\* a run awaits the callback with nodes still queued for extraction
C17_Witness ==
    \E id \in RunIds :
        /\ AwaitsCallback(runs[id])
        /\ runs[id].nodesExplored >= 2
        /\ ~isEmpty(openSet)

\* ------------------------------------------------------------------------
\* Properties of the returned path
\* ------------------------------------------------------------------------
\* the sum of the distance fields of a sequence of segments
RECURSIVE SumDistance(_)
SumDistance(segments) ==
    IF Len(segments) = 0 THEN 0
    ELSE Head(segments).distance + SumDistance(Tail(segments))

\* C18: the totalDistance of every path findPath returns is the sum of the
\* distance fields of the path's segments
C18_TotalIsSumOfSegments ==
    \A id \in RunIds :
        ReturnedPath(runs[id]) =>
            runs[id].result.totalDistance = SumDistance(runs[id].result.segments)

\* a returned path of three segments or more, not all of the same length
C18_Witness ==
    \E id \in RunIds :
        /\ ReturnedPath(runs[id])
        /\ Len(runs[id].result.segments) >= 3
        /\ \E a, b \in 1..Len(runs[id].result.segments) :
              runs[id].result.segments[a].distance #
                  runs[id].result.segments[b].distance

\* the graph has a directed edge u -> v: v is a key of u.connections
HasEdge(nodeSeq, u, v) ==
    MapHas(nodeSeq, u) /\ Len(ConnFind(MapGet(nodeSeq, u).connections, v)) > 0

\* C19: the node sequence of every path findPath returns begins with the
\* resolved start node and ends with the resolved goal node, every
\* consecutive pair (u, v) of it is joined by a directed edge u -> v, and
\* segments holds one entry per consecutive pair, in path order
C19_PathIsWalk ==
    \A id \in RunIds :
        ReturnedPath(runs[id]) =>
            LET path == runs[id].result.nodes
                segments == runs[id].result.segments
            IN  /\ Len(path) >= 1
                /\ path[1] = runs[id].startId
                /\ path[Len(path)] = runs[id].endId
                /\ Len(segments) = Len(path) - 1
                /\ \A k \in 1..(Len(path) - 1) :
                      /\ HasEdge(nodes, path[k], path[k + 1])
                      /\ segments[k].source = path[k]
                      /\ segments[k].target = path[k + 1]

\* a returned path that runs along the one-way street, whose reverse edge
\* does not exist
C19_Witness ==
    \E id \in RunIds :
        /\ ReturnedPath(runs[id])
        /\ Len(runs[id].result.nodes) >= 3
        /\ \E k \in 1..(Len(runs[id].result.nodes) - 1) :
              ~HasEdge(nodes, runs[id].result.nodes[k + 1], runs[id].result.nodes[k])

BuildSucceeded == call.outcome = "built"
\* processOsmData was called by a caller of the network and has thrown
BuildFailed == call.outcome = "threw"

\* the edge has a node of the network at either end
EndsAreNodes(edge) == MapHas(nodes, edge.source) /\ MapHas(nodes, edge.target)

\* C21: after a successful build every edge of the edges collection and
\* every edge stored in a node's connections has a source id and a target
\* id that are keys of the nodes map
C21_EdgesJoinNodes ==
    ready =>
        /\ \A i \in 1..Len(edges) : EndsAreNodes(edges[i])
        /\ \A i \in 1..Len(nodes) : \A k \in 1..Len(nodes[i].connections) :
              /\ EndsAreNodes(nodes[i].connections[k].edge)
              /\ MapHas(nodes, nodes[i].connections[k].to)

\* a graph of three edges or more was built from data in which a way
\* refers to a missing point
C21_Witness ==
    /\ BuildSucceeded /\ ready
    /\ Len(edges) >= 3
    /\ \E i \in 1..Len(call.data.elements) :
          /\ IsRoadWay(call.data.elements[i])
          /\ \E k \in 1..Len(call.data.elements[i].nodes) :
                ~LocalHas(SelectSeq(call.data.elements, IsOsmNode),
                          call.data.elements[i].nodes[k])

\* the node elements and the roads of the data handed to processOsmData
DataPoints == SelectSeq(call.data.elements, IsOsmNode)
DataWays == SelectSeq(call.data.elements, IsRoadWay)

\* the i-th consecutive pair of the way has a point with coordinates at
\* either end
ValidPair(way, i) ==
    /\ LocalHas(DataPoints, way.nodes[i])
    /\ LocalHas(DataPoints, way.nodes[i + 1])
PairsOf(way) == 1..(Len(way.nodes) - 1)
\* the way refers to an id that no point with coordinates has
RefersToMissing(way) ==
    \E k \in 1..Len(way.nodes) : ~LocalHas(DataPoints, way.nodes[k])
SomePairIsValid ==
    \E k \in 1..Len(DataWays) : \E i \in PairsOf(DataWays[k]) : ValidPair(DataWays[k], i)

\* C22: a build from data in which a way refers to a missing point skips
\* exactly the consecutive pairs with the missing point, keeps every other
\* pair of that way and of the other ways, and succeeds if a valid pair
\* remains; if none remains it fails with the error of an empty graph
C22_MissingPointSkipsPairs ==
    ((BuildSucceeded \/ BuildFailed) /\ call.data.hasElements
        /\ \E k \in 1..Len(DataWays) : RefersToMissing(DataWays[k])) =>
        /\ BuildSucceeded <=> SomePairIsValid
        /\ BuildSucceeded =>
              \A k \in 1..Len(DataWays) : \A i \in PairsOf(DataWays[k]) :
                  MapHas(edges, <<DataWays[k].id, i - 1, 0>>)
                      <=> ValidPair(DataWays[k], i)
        /\ BuildFailed =>
              /\ call.processMessage \in GraphEmptyErrors
              /\ nodes = <<>> /\ edges = <<>> /\ ~ready

\* a graph was built from a way that has a valid pair on either side of a
\* missing point, together with another way
C22_Witness ==
    /\ BuildSucceeded
    /\ Len(DataWays) >= 2
    /\ \E k \in 1..Len(DataWays) : \E i, j \in PairsOf(DataWays[k]) :
          /\ i < j /\ j < Len(DataWays[k].nodes) - 1
          /\ ValidPair(DataWays[k], i)
          /\ ~ValidPair(DataWays[k], j)
          /\ ValidPair(DataWays[k], Len(DataWays[k].nodes) - 1)

\* a node element without numeric coordinates, a road with fewer than two
\* references
HasCoordinates(e) == e.lat # NotANumber /\ e.lon # NotANumber
PointLacksCoordinates(e) == IsOsmNode(e) /\ ~HasCoordinates(e)
ShortWay(e) == IsRoadWay(e) /\ Len(e.nodes) < 2
DataElements == {call.data.elements[i] : i \in 1..Len(call.data.elements)}
\* some node element with this id has coordinates
PointWithCoordinates(id) ==
    \E e \in DataElements : IsOsmNode(e) /\ e.id = id /\ HasCoordinates(e)

\* C23: a point without numeric coordinates and a way with fewer than two
\* references are dropped and do not fail the build: no node has the id of
\* such a point only, no edge comes from such a way, and the build succeeds
\* whenever the rest of the data gives a node and an edge
C23_InvalidElementsDropped ==
    ((BuildSucceeded \/ BuildFailed) /\ call.data.hasElements
        /\ \E e \in DataElements : PointLacksCoordinates(e) \/ ShortWay(e)) =>
        /\ \A i \in 1..Len(nodes) : PointWithCoordinates(nodes[i].id)
        /\ \A i \in 1..Len(edges) : \A e \in DataElements :
              ShortWay(e) => edges[i].wayId # e.id
        /\ BuildSucceeded <=> SomePairIsValid
        /\ BuildFailed => call.processMessage \in GraphEmptyErrors

\* a graph was built from data with a point without coordinates that a way
\* refers to, and with a way of fewer than two references
C23_Witness ==
    /\ BuildSucceeded
    /\ \E e \in DataElements : ShortWay(e)
    /\ \E e \in DataElements : \E w \in DataElements :
          /\ PointLacksCoordinates(e) /\ IsRoadWay(w)
          /\ \E k \in 1..Len(w.nodes) : w.nodes[k] = e.id

\* C24: on a well-formed response processOsmData fails exactly when the
\* processing creates no node or no edge, that is when no way has a valid
\* pair; it then throws the error of an empty graph and leaves nodes and
\* edges empty and ready false, and otherwise it leaves a ready graph with
\* nodes and edges
C24_FailsIffGraphEmpty ==
    ((BuildSucceeded \/ BuildFailed) /\ call.data.hasElements) =>
        /\ BuildFailed <=> ~SomePairIsValid
        /\ BuildFailed =>
              /\ call.processMessage \in GraphEmptyErrors
              /\ nodes = <<>> /\ edges = <<>> /\ ~ready
        /\ BuildSucceeded => (ready /\ Len(nodes) > 0 /\ Len(edges) > 0)

\* on a network that held a graph, a response with points and roads but
\* without a valid pair was refused by the final validation
C24_Witness ==
    /\ BuildFailed
    /\ call.processMessage = "Failed to build road network - no nodes or edges created"
    /\ Len(DataWays) >= 1 /\ Len(DataPoints) >= 1
    /\ lastSuccessBounds # NullBounds
    /\ nodes = <<>>

\* a way is one-way when it carries a oneway tag other than 'no'
OneWay(way) == way.oneway \notin {"", "no"}
\* the positions in edges of the edges made for pair i of a way
EdgesOfPair(way, i) ==
    {j \in 1..Len(edges) : edges[j].id[1] = way.id /\ edges[j].id[2] = i - 1}

\* C25: after a successful build, each valid consecutive pair (a, b) of a
\* way has a forward edge from a to b; a one-way way has no other edge for
\* the pair, and a two-way way has in addition exactly the reverse edge from
\* b to a, with the distance of the forward edge
C25_EdgesPerPair ==
    BuildSucceeded =>
        \A k \in 1..Len(DataWays) : \A i \in PairsOf(DataWays[k]) :
            ValidPair(DataWays[k], i) =>
                LET way == DataWays[k]
                    a == way.nodes[i]
                    b == way.nodes[i + 1]
                    fwd == <<way.id, i - 1, 0>>
                    rev == <<way.id, i - 1, 1>>
                IN  /\ MapHas(edges, fwd)
                    /\ MapGet(edges, fwd).source = a
                    /\ MapGet(edges, fwd).target = b
                    /\ IF OneWay(way)
                       THEN /\ ~MapHas(edges, rev)
                            /\ Cardinality(EdgesOfPair(way, i)) = 1
                       ELSE /\ MapHas(edges, rev)
                            /\ MapGet(edges, rev).source = b
                            /\ MapGet(edges, rev).target = a
                            /\ MapGet(edges, rev).distance = MapGet(edges, fwd).distance
                            /\ Cardinality(EdgesOfPair(way, i)) = 2

\* a graph built from a one-way way and a way tagged oneway = 'no', each
\* with a valid pair
C25_Witness ==
    /\ BuildSucceeded
    /\ \E k \in 1..Len(DataWays) : \E i \in PairsOf(DataWays[k]) :
          OneWay(DataWays[k]) /\ ValidPair(DataWays[k], i)
    /\ \E k \in 1..Len(DataWays) : \E i \in PairsOf(DataWays[k]) :
          DataWays[k].oneway = "no" /\ ValidPair(DataWays[k], i)

\* C26: every edge of a successfully built graph has a distance strictly
\* greater than zero
C26_PositiveDistance ==
    ready => \A i \in 1..Len(edges) : edges[i].distance > 0

\* ------------------------------------------------------------------------
\* Properties of loadRoadsInView
\* ------------------------------------------------------------------------
\* latSpan > 0.1 || lngSpan > 0.1
SpanExceeds(b) == b.north - b.south > maxSpan \/ b.east - b.west > maxSpan
\* the debounce timer fires and handleMapMoveEnd asks for the roads in view
RoadsRequested == moveTimeout /\ ~moveTimeout' /\ view.zoom >= minZoomForRoads

\* C27: a request for the roads of a view whose latitude or longitude span
\* exceeds 0.1 degrees calls no fetchRoadData, starts no fetch and leaves
\* nodes, edges, ready and loading as they were
C27_LargeAreaRejected ==
    [][(RoadsRequested /\ SpanExceeds(view.bounds)) =>
          /\ calls' = calls
          /\ call' = call
          /\ nodes' = nodes /\ edges' = edges
          /\ ready' = ready /\ loading' = loading]_vars

\* with a graph loaded, no call in progress and calls left to make, the
\* roads were requested for a view too wide in longitude only
C27_Witness ==
    /\ ~moveTimeout
    /\ view.zoom >= minZoomForRoads
    /\ view.bounds.north - view.bounds.south <= maxSpan
    /\ view.bounds.east - view.bounds.west > maxSpan
    /\ ready /\ ~loading /\ Len(edges) > 0
    /\ calls < MaxCalls

\* ------------------------------------------------------------------------
\* Properties of the PriorityQueue
\* ------------------------------------------------------------------------
\* entry x is served before entry y: lower priority, or the same priority
\* and enqueued earlier
ServedBefore(x, y) ==
    x.priority < y.priority \/ (x.priority = y.priority /\ x.element < y.element)

\* C28: after any sequence of enqueue and dequeue calls, dequeue removes and
\* returns one stored entry, whose priority is the smallest stored and which
\* among the entries of that priority was enqueued first; the other entries
\* stay stored in their order
C28_DequeueIsStableMin ==
    [][Len(openSet') < Len(openSet) =>
          \E i \in 1..Len(openSet) :
              /\ openSet[i].element \notin closedSet
              /\ closedSet' = closedSet \cup {openSet[i].element}
              /\ \A j \in 1..Len(openSet) : j # i => ServedBefore(openSet[i], openSet[j])
              /\ openSet' = SubSeq(openSet, 1, i - 1) \o SubSeq(openSet, i + 1, Len(openSet))]_vars

\* after a dequeue the queue holds two entries of equal priority and an
\* entry stored in front of one that was enqueued before it
C28_Witness ==
    /\ closedSet # {}
    /\ \E i, j \in 1..Len(openSet) :
          i < j /\ openSet[i].priority = openSet[j].priority
    /\ \E i, j \in 1..Len(openSet) :
          i < j /\ openSet[i].element > openSet[j].element

\* ------------------------------------------------------------------------
\* Properties of the open queue and the closed set within a findPath run
\* ------------------------------------------------------------------------
\* run id takes an entry from the open queue in this step
Extracts(id) ==
    /\ running = id
    /\ runs[id].pc = "loop"
    /\ ~isEmpty(openSet)
    /\ ~paused
    /\ runs'[id].nodesExplored = runs[id].nodesExplored + 1
\* the f a queued node has now
CurrentF(entry) == MapGet(nodes, entry.element).f

\* C29: at every extraction in findPath the node taken from the open queue
\* has the smallest current f among the nodes in the queue, also when a
\* queued node has since got a lower g and f
C29_ExtractsSmallestF ==
    [][\A id \in RunIds :
          Extracts(id) =>
              \A i \in 1..Len(openSet) : CurrentF(Head(openSet)) <= CurrentF(openSet[i])]_vars

\* node n has an entry in the queue
Queued(open, n) == \E i \in 1..Len(open) : open[i].element = n
\* the places a node can be in during a run
Unseen(nodeSeq, open, closed, n) ==
    ~Queued(open, n) /\ n \notin closed /\ MapGet(nodeSeq, n).g = Infinity
NodeIds == {nodes[i].id : i \in 1..Len(nodes)}
Scores(node) == <<node.g, node.h, node.f, node.parent>>

\* C30: in every step of a findPath run after its start a node enters the
\* open queue only when it was unseen, enters the closed set only from the
\* open queue, and once closed stays closed, is never in the queue again
\* and keeps its g, h, f and parent
C30_ClosedIsFinal ==
    [][started' = started =>
          \A n \in NodeIds :
              /\ n \in closedSet =>
                    /\ n \in closedSet'
                    /\ ~Queued(openSet', n)
                    /\ Scores(MapGet(nodes', n)) = Scores(MapGet(nodes, n))
              /\ (n \in closedSet' /\ n \notin closedSet) => Queued(openSet, n)
              /\ (Queued(openSet', n) /\ ~Queued(openSet, n)) =>
                    Unseen(nodes, openSet, closedSet, n)]_vars

\* a run in its loop has closed two nodes joined by edges in both
\* directions, so one of them was met as a closed neighbour of the other,
\* and still has a node in the queue
C30_Witness ==
    /\ running # 0
    /\ runs[running].pc = "loop"
    /\ ~isEmpty(openSet)
    /\ \E m, n \in closedSet :
          /\ m # n
          /\ ConnHas(MapGet(nodes, m).connections, n)
          /\ ConnHas(MapGet(nodes, n).connections, m)

\* ------------------------------------------------------------------------
\* Properties of the counters and scores of a findPath run
\* ------------------------------------------------------------------------
\* the run that called findPath last; openSet and closedSet are its own
LatestRun(id) == id = started /\ runs[id].pc # "unused"
\* the distinct nodes the latest run has taken from the queue: the closed
\* ones and, once the goal was extracted, the goal
ExtractedNodes(run) ==
    closedSet \cup (IF run.pc = "done" /\ run.result.kind = "path" THEN {run.endId} ELSE {})

\* C31: at any point of a run nodesExplored equals the number of distinct
\* nodes extracted from the queue so far, and so never exceeds the number
\* of nodes of the graph
C31_NoDoubleCount ==
    \A id \in RunIds :
        LatestRun(id) =>
            /\ runs[id].nodesExplored = Cardinality(ExtractedNodes(runs[id]))
            /\ runs[id].nodesExplored <= Len(nodes)

\* a run has extracted three nodes and one of the queued nodes has since
\* got a better f than the priority it was enqueued with
C31_Witness ==
    \E id \in RunIds :
        /\ LatestRun(id)
        /\ runs[id].nodesExplored >= 3
        /\ \E i \in 1..Len(openSet) :
              MapGet(nodes, openSet[i].element).f < openSet[i].priority

\* the search state of a node no run has touched
Untouched(node) ==
    node.g = Infinity /\ node.h = 0 /\ node.f = Infinity /\ node.parent = Null

\* C32: the step in which a findPath run starts leaves every node of the
\* graph with g = Infinity, h = 0, f = Infinity and no parent, whatever the
\* earlier runs left behind, except that the start node (when both points
\* resolve) is then given g = 0 and f = h, still without a parent
C32_RunStartsFromReset ==
    [][started' = started + 1 =>
          LET run == runs'[started + 1]
          IN  \A i \in 1..Len(nodes') :
                  IF run.pc # "done" /\ nodes'[i].id = run.startId
                  THEN /\ nodes'[i].g = 0
                       /\ nodes'[i].f = nodes'[i].h
                       /\ nodes'[i].parent = Null
                  ELSE Untouched(nodes'[i])]_vars

\* a second run has just started after a run that returned a path of
\* several nodes: only the start node is queued and nothing is explored
C32_Witness ==
    /\ started = 2
    /\ runs[1].pc = "done" /\ runs[1].result.kind = "path"
    /\ Len(runs[1].result.nodes) >= 3
    /\ runs[2].pc = "loop" /\ runs[2].nodesExplored = 0
    /\ runs[2].startId # runs[1].startId
    /\ \A i \in 1..Len(nodes) : nodes[i].id # runs[2].startId => Untouched(nodes[i])

\* C33: while paused is true no step of a running search consumes anything:
\* the open queue, the closed set, the nodes with their g, h, f and parent
\* and every run's nodesExplored stay as they are, and no run comes to
\* await the progress callback
C33_PausedConsumesNothing ==
    [][(paused /\ started' = started) =>
          /\ openSet' = openSet
          /\ closedSet' = closedSet
          /\ nodes' = nodes
          /\ \A id \in RunIds :
                /\ runs'[id].nodesExplored = runs[id].nodesExplored
                /\ runs'[id].pc = "cbWait" => runs[id].pc = "cbWait"]_vars

\* a run that has explored two nodes and still has nodes queued waits in
\* the pause timer while paused is true
C33_Witness ==
    \E id \in RunIds :
        /\ paused
        /\ runs[id].pc = "pauseWait"
        /\ runs[id].nodesExplored >= 2
        /\ Len(openSet) >= 2

\* ------------------------------------------------------------------------
\* Properties of the outcome of one findPath run
\* ------------------------------------------------------------------------
\* the nodes one directed edge away from a set of nodes
Successors(S) ==
    UNION {{nodes[i].connections[k].to : k \in 1..Len(nodes[i].connections)} :
              i \in {j \in 1..Len(nodes) : nodes[j].id \in S}}
\* the nodes reachable from S along directed edges
RECURSIVE ReachableFrom(_)
ReachableFrom(S) ==
    LET T == S \cup Successors(S)
    IN  IF T = S THEN S ELSE ReachableFrom(T)
Reachable(a, b) == b \in ReachableFrom({a})
\* the run has returned and both of its points had resolved to nodes
ReturnedResolved(run) ==
    run.pc = "done" /\ run.startId # Null /\ run.endId # Null

\* C34: a findPath whose two points resolve to nodes returns a path if the
\* goal node is reachable from the start node along directed edges, and
\* the no-path result (null) if it is not
C34_PathIffReachable ==
    \A id \in RunIds :
        ReturnedResolved(runs[id]) =>
            IF Reachable(runs[id].startId, runs[id].endId)
            THEN runs[id].result.kind = "path"
            ELSE runs[id].result = NullResult

\* a run returned without a path after exploring three nodes, none of
\* which leads to the goal
C34_Witness ==
    \E id \in RunIds :
        /\ ReturnedResolved(runs[id])
        /\ runs[id].result = NullResult
        /\ runs[id].nodesExplored >= 3

\* the edge held by p.connections.get(n)
EdgeFrom(p, n) ==
    LET c == MapGet(nodes, p).connections
    IN  c[CHOOSE k \in 1..Len(c) : c[k].to = n].edge
\* the node reached from n by following parent k times, Null past the end
RECURSIVE Ancestor(_, _)
Ancestor(n, k) ==
    IF k = 0 \/ n = Null THEN n ELSE Ancestor(MapGet(nodes, n).parent, k - 1)
\* the parent chain of n ends at node s without visiting a node twice
ChainEndsAt(n, s) ==
    \E k \in 0..(Len(nodes) - 1) :
        /\ Ancestor(n, k) = s
        /\ MapGet(nodes, s).parent = Null
        /\ \A i, j \in 0..k : i # j => Ancestor(n, i) # Ancestor(n, j)

C36_QueueHoldsOpenNodesOnce ==
    \A id \in RunIds :
        LatestRun(id) =>
            /\ \A i, j \in 1..Len(openSet) :
                  i # j => openSet[i].element # openSet[j].element
            /\ \A i \in 1..Len(openSet) : openSet[i].element \notin closedSet

\* a run in its loop has closed three nodes and holds two queued nodes,
\* one of which was reached again with a lower g while it was queued
C36_Witness ==
    \E id \in RunIds :
        /\ LatestRun(id)
        /\ runs[id].pc = "loop"
        /\ Cardinality(closedSet) >= 3
        /\ Len(openSet) >= 2
        /\ \E i \in 1..Len(openSet) :
              MapGet(nodes, openSet[i].element).f < openSet[i].priority

\* ------------------------------------------------------------------------
\* Termination of a findPath run
\* ------------------------------------------------------------------------
\* every promise returned by the progress callback resolves
CallbacksResolve ==
    \A id \in RunIds : [](runs[id].pc = "cbWait" => <>(runs[id].pc # "cbWait"))
\* every run that has started returns
EveryRunReturns ==
    \A id \in RunIds : [](InFlight(runs[id]) => <>(runs[id].pc = "done"))
\* no run extracts more often than the graph has nodes
ExtractionsBounded ==
    [](\A id \in RunIds : runs[id].nodesExplored <= Len(nodes))

\* C37 as stated: if paused does not stay true forever and every callback
\* promise resolves, a findPath run returns, after at most as many
\* extractions as the graph has nodes
C37_Terminates ==
    /\ ExtractionsBounded
    /\ ([]<>(~paused) /\ CallbacksResolve) => EveryRunReturns

\* C37, amended: if from some time on paused stays false and every callback
\* promise resolves, a findPath run returns, after at most as many
\* extractions as the graph has nodes
C37_TerminatesOnceUnpaused ==
    /\ ExtractionsBounded
    /\ (<>[](~paused) /\ CallbacksResolve) => EveryRunReturns

\* with paused false a run has returned after as many extractions as the
\* graph has nodes
C37_Witness ==
    \E id \in RunIds :
        /\ runs[id].pc = "done"
        /\ ~paused
        /\ runs[id].nodesExplored = Len(nodes)

\* ------------------------------------------------------------------------
\* A search from a node to itself
\* ------------------------------------------------------------------------
\* both points of the run resolved to one and the same node
SameNodeRun(run) ==
    run.pc # "unused" /\ run.startId # Null /\ run.startId = run.endId

\* C38: a findPath whose start and end resolve to the same node closes no
\* node and returns a path that consists of that node alone, with no
\* segments, totalDistance 0, totalTime 0 and nodesExplored 1
C38_SameNodePath ==
    \A id \in RunIds :
        (LatestRun(id) /\ SameNodeRun(runs[id])) =>
            /\ closedSet = {}
            /\ runs[id].pc = "done" =>
                  /\ runs[id].result.kind = "path"
                  /\ runs[id].result.nodes = <<runs[id].startId>>
                  /\ runs[id].result.segments = <<>>
                  /\ runs[id].result.totalDistance = 0
                  /\ runs[id].result.totalTime = 0
                  /\ runs[id].result.nodesExplored = 1

\* a search from a node that has neighbours to itself has returned
C38_Witness ==
    \E id \in RunIds :
        /\ LatestRun(id) /\ SameNodeRun(runs[id])
        /\ runs[id].pc = "done"
        /\ Len(MapGet(nodes, runs[id].startId).connections) >= 2

====
